---- MODULE Spec2Model ----
(***************************************************************************)
(* A model of the evo-mcp object builders (object_builders.py) and of the  *)
(* build tools that drive them (object_build_tools.py).                    *)
(*                                                                         *)
(* SpecBuilder exercises the builder primitives on bounded tables: the     *)
(* hole collection builder (sort, lookup, grouping index, persisted child  *)
(* array), the attribute typer, the hole-id category field of the flat     *)
(* intervals builder, and the bounding box.                                *)
(*                                                                         *)
(* Spec is one invocation of a build tool: the local validation, the dry   *)
(* run return, and the creation path through the collaborators             *)
(* (ensure_initialized, get_object_client, the builder's save_table calls, *)
(* the round-trip parse, upload_referenced_data, create_geoscience_object).*)
(***************************************************************************)
EXTENDS Integers, Sequences, FiniteSets, TLC

(* ------------------------------ bounds -------------------------------- *)
MaxCollar == 2
MaxChild == 3
MaxColumn == 4
MaxPoints == 2
MaxSegments == 2
MaxIntervalFiles == 1
MaxRequested == 2
MaxSurvey == 2
MaxObjects == 2

\* Hole ids: n stands for the string "Hn"; the integers order as the strings do.
CollarHoleIds == {1, 2}
ChildHoleIds == {1, 2, 3}
\* Depth (survey) or from (interval) values of a child row.
Depths == {10, 20}

\* current_hole = None
NoHole == 0

(* --------------------------- float64 values --------------------------- *)
\* A coordinate is a finite number, NaN (missing) or +/- infinity.  The
\* infinities are encoded beyond every finite value, NaN apart from both.
FiniteCoords == {0, 1}
PosInf == (CHOOSE m \in FiniteCoords : \A v \in FiniteCoords : v <= m) + 1
NegInf == (CHOOSE m \in FiniteCoords : \A v \in FiniteCoords : m <= v) - 1
NaN == PosInf + 1000

notna(v) == v /= NaN
isfinite(v) == v /= NaN /\ v /= PosInf /\ v /= NegInf

(* ------------------------------ helpers ------------------------------- *)
SeqsUpTo(S, n) == UNION {[1..k -> S] : k \in 0..n}

Range(s) == {s[i] : i \in DOMAIN s}

RECURSIVE SumSeq(_)
SumSeq(s) == IF s = <<>> THEN 0 ELSE Head(s) + SumSeq(Tail(s))

\* The injective maps of 1..n onto itself.
Perms(n) == {p \in [1..n -> 1..n] : \A i, j \in 1..n : i /= j => p[i] /= p[j]}

Reorder(s, p) == [i \in 1..Len(s) |-> s[p[i]]]

(* --------------------------- the variables ---------------------------- *)
VARIABLES
    b_op,            \* which builder primitive this behaviour exercises
    b_pc,            \* "input" | "built" | "raised"
    collar_df,       \* the caller's collar table: rows [id, xyz]
    child_df,        \* the caller's survey or interval table: rows [id, d]
    child_kind,      \* "survey" | "interval"
    sorted_collar,   \* collar_df after sort_values(by=collar_id_col)
    sorted_child,    \* the child table after its sort_values
    hole_id_lookup,  \* rows [key, value]
    collar_keys,     \* the hole_id category field's value array
    holes_df,        \* the grouping index: rows [hole_index, offset, count]
    saved_child,     \* the persisted child array (path / from-to), in saved order
    max_depth_col,   \* build()'s max_depth_col: a collar column, or NoColumn (None)
    invert_z,        \* build()'s invert_z
    distances,       \* the persisted distances array: rows [final, target, current]
    path,            \* the persisted survey path: rows [distance, azimuth, dip]
    a_dtype,         \* str(data.dtype) of the column handed to build_attribute
    a_data,          \* the column's cells
    a_name,          \* the column's name, the attribute's display name
    a_attr,          \* the attribute built: [type, table, values]
    a_warnings,      \* the builder's warnings
    bb_df,           \* the coordinate rows handed to build_bounding_box
    bb_out,          \* its result: [raised, box]
    at_in,           \* build_attributes' arguments: [df_columns, columns, exclude, raises]
    at_out,          \* its result: [attributes, warnings]
    ps_in,           \* PointsetBuilder.build's table and attribute_columns argument
    ps_out,          \* what it persisted and returned: [raised, coordinates, attributes, box]
    inp,             \* the arguments and files of one build tool invocation
    pc,              \* where the invocation stands
    status,          \* the "status" of the dict returned, "" before the return
    errors,          \* result["errors"]
    calls,           \* the collaborator calls made so far, in order
    saved,           \* the tables handed to data_client.save_table, in order
    created,         \* the objects created: what create_geoscience_object got
    error,           \* result["error"], or the exception that left the tool
    initialized,     \* evo_context._initialized
    org_id,          \* evo_context.org_id
    hub_url,         \* evo_context.hub_url
    client,          \* what connector and workspace_client were built with: [org, hub]
    cache_variables, \* .cache/variables.json: [org, hub], or NoAddress when absent
    token_cached,    \* .cache/evo_token_cache.json holds a token that has not expired
    selected,        \* the instance the last matching select_instance returned
    addressed,       \* what the last tool invocation since then addressed
    environ,         \* MCP_TOOL_FILTER in the agent's environment, Unset when absent
    agent_pc,        \* "agent" | "server" | "serving", "idle" when no agent runs
    AGENT_TYPE,      \* agent.py's AGENT_TYPE
    tool_env,        \* tool_env["MCP_TOOL_FILTER"], the launched server's environment
    prompt_name,     \* the prompt name the agent's instruction provider asks for
    TOOL_FILTER,     \* mcp_tools.py's TOOL_FILTER
    prompts,         \* the names of the prompts registered on the server
    instruction,     \* how the agent's prompt request ended: "" | "found" | "unknown_prompt"
    dw_pc,           \* workspace_duplicate_workspace: "called" | "loop" | "returned" | "raised"
    all_objects,     \* what source_client.list_all_objects() returns
    schema_filter,   \* the schema_filter argument
    name_filter,     \* the name_filter argument
    filtered_objects, \* the objects that pass the filters
    obj_index,       \* the position in filtered_objects of the next iteration
    downloads,       \* the ids download_object_by_id was called with, in order
    copied_count,
    failed_count,
    cloned_data_ids  \* the data blobs copied so far

collection_vars == <<collar_df, child_df, child_kind, sorted_collar, sorted_child,
                     hole_id_lookup, collar_keys, holes_df, saved_child,
                     max_depth_col, invert_z, distances, path>>
attribute_vars == <<a_dtype, a_data, a_name, a_attr, a_warnings>>
bbox_vars == <<bb_df, bb_out>>
attributes_vars == <<at_in, at_out>>
pointset_vars == <<ps_in, ps_out>>

builder_vars == <<b_op, b_pc, collection_vars, attribute_vars, bbox_vars, attributes_vars,
                  pointset_vars>>

tool_vars == <<inp, pc, status, errors, calls, saved, created, error>>

context_vars == <<initialized, org_id, hub_url, client, cache_variables, token_cached,
                  selected, addressed>>

agent_vars == <<environ, agent_pc, AGENT_TYPE, tool_env, prompt_name, TOOL_FILTER,
                prompts, instruction>>

duplicate_vars == <<dw_pc, all_objects, schema_filter, name_filter, filtered_objects,
                    obj_index, downloads, copied_count, failed_count, cloned_data_ids>>

vars == <<builder_vars, tool_vars, context_vars, agent_vars, duplicate_vars>>

(* ------------------------- sorting (pandas) --------------------------- *)
\* DataFrame.sort_values(by=<one column>): the default kind, quicksort, is
\* not stable, so every permutation ordered by the key is a possible result.
sort_values_by_id(df) ==
    {Reorder(df, p) : p \in {q \in Perms(Len(df)) :
        \A i, j \in 1..Len(df) : i < j => df[q[i]].id <= df[q[j]].id}}

\* DataFrame.sort_values(by=[id_col, from_col]): ordered by id, then by from.
sort_values_by_id_from(df) ==
    {Reorder(df, p) : p \in {q \in Perms(Len(df)) :
        \A i, j \in 1..Len(df) : i < j =>
            \/ df[q[i]].id < df[q[j]].id
            \/ df[q[i]].id = df[q[j]].id /\ df[q[i]].d <= df[q[j]].d}}

(* ------------------------ hole id lookup ------------------------------ *)
\* A unique() that keeps every occurrence.
unique_kept_all(s) == s

\* Series.unique(): the distinct values in first-occurrence order.
RECURSIVE unique(_)
unique(s) ==
    IF s = <<>> THEN <<>>
    ELSE LET u == unique(SubSeq(s, 1, Len(s) - 1))
             v == s[Len(s)]
         IN IF v \in Range(u) THEN u ELSE Append(u, v)

build_hole_id_lookup(hole_ids) ==
    [k \in 1..Len(hole_ids) |-> [key |-> k, value |-> hole_ids[k]]]

\* dict(zip(lookup['value'], lookup['key'])): a later duplicate value wins.
in_id_to_key(lookup, v) == \E k \in DOMAIN lookup : lookup[k].value = v

id_to_key(lookup, v) ==
    LET last == CHOOSE k \in DOMAIN lookup :
                    /\ lookup[k].value = v
                    /\ \A j \in DOMAIN lookup : lookup[j].value = v => j <= k
    IN lookup[last].key

(* ------------------------- bounding box ------------------------------- *)
MinOf(S) == CHOOSE m \in S : \A v \in S : m <= v
MaxOf(S) == CHOOSE m \in S : \A v \in S : v <= m

\* A mask that keeps a row as soon as one coordinate is present.
valid_mask_any(coords) == {i \in DOMAIN coords : \E a \in 1..3 : notna(coords[i][a])}

\* df[[x, y, z]].notna().all(axis=1): the rows with all three coordinates.
valid_mask(coords) == {i \in DOMAIN coords : \A a \in 1..3 : notna(coords[i][a])}

bbox_values(coords) ==
    LET valid == valid_mask(coords)
        col(a) == {coords[i][a] : i \in valid}
    IN [min_x |-> MinOf(col(1)), max_x |-> MaxOf(col(1)),
        min_y |-> MinOf(col(2)), max_y |-> MaxOf(col(2)),
        min_z |-> MinOf(col(3)), max_z |-> MaxOf(col(3))]

BBoxKeys == {"min_x", "max_x", "min_y", "max_y", "min_z", "max_z"}

\* The result is [raised, box]: raised names the ValueError, or is "".
build_bounding_box(coords) ==
    IF valid_mask(coords) = {}
    THEN [raised |-> "no_valid_coordinates", box |-> <<>>]
    ELSE LET b == bbox_values(coords) IN
         IF \E k \in BBoxKeys : ~isfinite(b[k])
         THEN [raised |-> "not_finite", box |-> <<>>]
         ELSE [raised |-> "", box |-> b]

(* ------------------------- grouping index ----------------------------- *)
HoleRecord(k, off, cnt) == [hole_index |-> k, offset |-> off, count |-> cnt]

\* Closing a run: recorded only when the hole is known to the lookup.
close_run(lookup, cur, off, cnt, records) ==
    IF cur /= NoHole /\ in_id_to_key(lookup, cur)
    THEN Append(records, HoleRecord(id_to_key(lookup, cur), off, cnt))
    ELSE records

\* A scan that forgets to close the run open at the end of the table.
RECURSIVE scan_runs_last_dropped(_, _, _, _, _, _, _)
scan_runs_last_dropped(data_df, lookup, i, cur, off, cnt, records) ==
    IF i > Len(data_df)
    THEN records
    ELSE IF data_df[i].id /= cur
         THEN scan_runs_last_dropped(data_df, lookup, i + 1, data_df[i].id, i - 1, 1,
                                     close_run(lookup, cur, off, cnt, records))
         ELSE scan_runs_last_dropped(data_df, lookup, i + 1, cur, off, cnt + 1, records)

\* The loop over data_df.iterrows(), from row i on; after the last row the
\* open run is closed ("Don't forget the last hole").
RECURSIVE scan_runs(_, _, _, _, _, _, _)
scan_runs(data_df, lookup, i, cur, off, cnt, records) ==
    IF i > Len(data_df)
    THEN close_run(lookup, cur, off, cnt, records)
    ELSE IF data_df[i].id /= cur
         THEN scan_runs(data_df, lookup, i + 1, data_df[i].id, i - 1, 1,
                        close_run(lookup, cur, off, cnt, records))
         ELSE scan_runs(data_df, lookup, i + 1, cur, off, cnt + 1, records)

\* A fill that gives no record to the holes without rows.
missing_hole_records_skipped(lookup, records) == {}

\* "Fill in missing holes with zero counts": one record per key of the
\* lookup that no run carries.
missing_hole_records(lookup, records) ==
    LET all_keys == {lookup[k].key : k \in DOMAIN lookup}
        existing_keys == {records[i].hole_index : i \in DOMAIN records}
    IN {HoleRecord(k, 0, 0) : k \in all_keys \ existing_keys}

\* result.sort_values('offset'): every order of the records that is
\* ascending in offset (ties in any order).  Without any record the frame
\* has no 'offset' column and sort_values raises KeyError.
build_hole_index_map(data_df, lookup) ==
    LET scanned == scan_runs(data_df, lookup, 1, NoHole, 0, 0, <<>>)
        missing == missing_hole_records(lookup, scanned)
        n == Len(scanned) + Cardinality(missing)
    IN IF n = 0 THEN {[raised |-> "KeyError", rows |-> <<>>]}
       ELSE {[raised |-> "", rows |-> r] : r \in {s \in [1..n -> Range(scanned) \cup missing] :
                /\ \A i, j \in 1..n : i < j => s[i].offset <= s[j].offset
                /\ \A x \in missing : Cardinality({i \in 1..n : s[i] = x}) = 1
                /\ \A x \in Range(scanned) :
                      Cardinality({i \in 1..n : s[i] = x})
                        = Cardinality({i \in DOMAIN scanned : scanned[i] = x})}}

\* save_path_array / save_float_array2: the child table's rows, in the
\* order of the frame handed over, reduced to the persisted columns.
save_child_array(df) == [i \in 1..Len(df) |-> [d |-> df[i].d]]

(* ---------------- DownholeCollectionBuilder.build --------------------- *)
\* Collar coordinates are all present here; an empty collar table is the
\* case in which build_bounding_box raises.
CollarCoords == {<<0, 0, 0>>}
\* The collar table carries a maximum-depth column, used only when build()
\* is told its name.
CollarMaxDepths == {30}
CollarRows == [id : CollarHoleIds, xyz : CollarCoords, max_depth : CollarMaxDepths]
ChildRows == [id : ChildHoleIds, d : Depths]

\* max_depth_col=None
NoColumn == "<none>"

\* Survey rows carry azimuth and dip besides the hole id and the depth.  The
\* longer survey tables hold one dip throughout and are built with or
\* without a maximum-depth column; the tables of up to MaxSurvey rows hold
\* any dips, for holes of the collar, and are built with or without the
\* inversion.
Azimuths == {90}
Dips == {-60, 45}
SteadyDip == -60
SteadySurveyRows == [id : ChildHoleIds, d : Depths, azimuth : Azimuths, dip : {SteadyDip}]
SurveyRows == [id : CollarHoleIds, d : Depths, azimuth : Azimuths, dip : Dips]

\* An inversion that leaves the dips as they are.
invert_dip_skipped(df) == df

\* survey_df = survey_df.copy(); survey_df[dip_col] = -survey_df[dip_col]
invert_dip(df) == [i \in 1..Len(df) |-> [df[i] EXCEPT !.dip = -df[i].dip]]

\* save_path_array: the survey frame's depth, azimuth and dip columns, row
\* by row, renamed.
save_path_array(df) ==
    [i \in 1..Len(df) |-> [distance |-> df[i].d, azimuth |-> df[i].azimuth, dip |-> df[i].dip]]

\* survey_df.groupby(survey_id_col)[depth_col].max(): the holes of the survey,
\* and each one's largest depth.
groupby_ids(survey_df) == {survey_df[i].id : i \in DOMAIN survey_df}

groupby_max(survey_df, id) == MaxOf({survey_df[i].d : i \in {j \in DOMAIN survey_df : survey_df[j].id = id}})

DistanceRow(v) == [final |-> v, target |-> v, current |-> v]

\* A derivation that takes the first depth met for a hole instead of the largest.
derived_max_depth_first(survey_df, id) ==
    IF id \in groupby_ids(survey_df)
    THEN survey_df[CHOOSE i \in DOMAIN survey_df :
             survey_df[i].id = id /\ \A j \in DOMAIN survey_df : survey_df[j].id = id => i <= j].d
    ELSE 0

\* collar_df.merge(max_depths, how='left') and fillna(0.0): the '_max_depth'
\* of one collar row.
derived_max_depth(survey_df, id) ==
    IF id \in groupby_ids(survey_df) THEN groupby_max(survey_df, id) ELSE 0

\* build_location's distances: the collar's max-depth column three times
\* when it is named and present, else the depth derived from the survey, one
\* row per collar row of the (sorted) collar frame.
build_distances(collar, survey_df, depth_col) ==
    [i \in 1..Len(collar) |->
        IF depth_col /= NoColumn
        THEN DistanceRow(collar[i].max_depth)
        ELSE DistanceRow(derived_max_depth(survey_df, collar[i].id))]

column_of_id(df) == [i \in 1..Len(df) |-> df[i].id]
column_of_xyz(df) == [i \in 1..Len(df) |-> df[i].xyz]

\* A build that indexes and saves the child table as the caller gave it.
sort_child_skipped(kind, df) == {df}

\* survey_df.sort_values(by=survey_id_col) for the survey table,
\* coll_config['dataframe'].sort_values(by=[id_col, from_col]) for an
\* interval table.
sort_child(kind, df) ==
    IF kind = "survey" THEN sort_values_by_id(df) ELSE sort_values_by_id_from(df)

\* collar_df[collar_id_col].map(id_to_key)
map_collar_keys(df, lookup) == [i \in 1..Len(df) |-> id_to_key(lookup, df[i].id)]

NoAttribute == [type |-> "none", name |-> "", key |-> <<>>, table |-> <<>>, values |-> <<>>]
NoBBox == [raised |-> "", box |-> <<>>]

IdleCollection ==
    /\ collar_df = <<>> /\ child_df = <<>> /\ child_kind = "survey"
    /\ sorted_collar = <<>> /\ sorted_child = <<>> /\ hole_id_lookup = <<>>
    /\ collar_keys = <<>> /\ holes_df = <<>> /\ saved_child = <<>>
    /\ max_depth_col = NoColumn /\ invert_z = FALSE /\ distances = <<>> /\ path = <<>>

IdleAttribute ==
    /\ a_dtype = "object" /\ a_data = <<>> /\ a_name = ""
    /\ a_attr = NoAttribute /\ a_warnings = <<>>

IdleBBox == bb_df = <<>> /\ bb_out = NoBBox

NoAttributes == [attributes |-> <<>>, warnings |-> <<>>]

IdleAttributes == at_in = <<>> /\ at_out = NoAttributes

NoPointset == [raised |-> "", coordinates |-> <<>>, attributes |-> <<>>, box |-> <<>>]

IdlePointset == ps_in = <<>> /\ ps_out = NoPointset

NoInput == [tool |-> "none"]

IdleTool ==
    /\ inp = NoInput /\ pc = "idle" /\ status = "" /\ errors = <<>>
    /\ calls = <<>> /\ saved = <<>> /\ created = <<>> /\ error = ""

\* An instance's hub URL; the URL of no hub.
HubOf(instance) == <<"hub", instance>>

NoInstance == "none"

Address(org, hub) == [org |-> org, hub |-> hub]

NoAddress == Address(NoInstance, HubOf(NoInstance))

\* os.getenv's answer for a variable that is not set.
Unset == "<unset>"

IdleAgent ==
    /\ environ = Unset
    /\ agent_pc = "idle"
    /\ AGENT_TYPE = Unset
    /\ tool_env = Unset
    /\ prompt_name = ""
    /\ TOOL_FILTER = Unset
    /\ prompts = {}
    /\ instruction = ""

IdleDuplicate ==
    /\ dw_pc = "idle" /\ all_objects = <<>> /\ schema_filter = <<>> /\ name_filter = <<>>
    /\ filtered_objects = <<>> /\ obj_index = 0 /\ downloads = <<>>
    /\ copied_count = 0 /\ failed_count = 0 /\ cloned_data_ids = {}

IdleContext ==
    /\ initialized = FALSE /\ org_id = NoInstance /\ hub_url = HubOf(NoInstance)
    /\ client = NoAddress /\ cache_variables = NoAddress /\ token_cached = FALSE
    /\ selected = NoInstance /\ addressed = NoAddress

IdleBuilder ==
    /\ b_op = "none" /\ b_pc = "idle"
    /\ IdleCollection /\ IdleAttribute /\ IdleBBox /\ IdleAttributes /\ IdlePointset

InitCollection ==
    /\ b_op = "collection"
    /\ b_pc = "input"
    /\ collar_df \in SeqsUpTo(CollarRows, MaxCollar)
    /\ \/ /\ child_kind = "interval"
          /\ child_df \in SeqsUpTo(ChildRows, MaxChild)
          /\ max_depth_col = NoColumn
          /\ invert_z = FALSE
       \/ /\ child_kind = "survey"
          /\ child_df \in SeqsUpTo(SteadySurveyRows, MaxChild)
          /\ max_depth_col \in {NoColumn, "max_depth"}
          /\ invert_z = FALSE
       \/ /\ child_kind = "survey"
          /\ child_df \in SeqsUpTo(SurveyRows, MaxSurvey)
          /\ max_depth_col = NoColumn
          /\ invert_z \in BOOLEAN
    /\ sorted_collar = <<>>
    /\ sorted_child = <<>>
    /\ hole_id_lookup = <<>>
    /\ collar_keys = <<>>
    /\ holes_df = <<>>
    /\ saved_child = <<>>
    /\ distances = <<>>
    /\ path = <<>>
    /\ IdleAttribute
    /\ IdleBBox
    /\ IdleAttributes
    /\ IdlePointset
    /\ IdleTool
    /\ IdleContext
    /\ IdleAgent
    /\ IdleDuplicate

\* build(): sort both tables, build the lookup from the sorted collar, the
\* bounding box (which may raise), then the location / interval collection:
\* the grouping index and the persisted child array, both from the sorted
\* child frame.  For a survey the dips are inverted on request after the
\* sort, and build_location persists the distances before the hole-id data,
\* the grouping index and the path.
DownholeCollectionBuilder_build ==
    /\ b_op = "collection"
    /\ b_pc = "input"
    /\ \E sc \in sort_values_by_id(collar_df), sch \in sort_child(child_kind, child_df) :
         LET lookup == build_hole_id_lookup(unique(column_of_id(sc)))
             bbox == build_bounding_box(column_of_xyz(sc))
         IN /\ sorted_collar' = sc
            /\ sorted_child' = sch
            /\ hole_id_lookup' = lookup
            /\ IF bbox.raised /= ""
               THEN /\ b_pc' = "raised"
                    /\ UNCHANGED <<collar_keys, holes_df, saved_child, distances, path>>
               ELSE \E r \in build_hole_index_map(sch, lookup) :
                      /\ b_pc' = IF r.raised /= "" THEN "raised" ELSE "built"
                      /\ collar_keys' = map_collar_keys(sc, lookup)
                      /\ holes_df' = r.rows
                      /\ saved_child' = save_child_array(sch)
                      /\ IF child_kind = "survey"
                         THEN LET survey_df == IF invert_z THEN invert_dip(sch) ELSE sch
                              IN /\ distances' = build_distances(sc, survey_df, max_depth_col)
                                 /\ path' = IF r.raised /= "" THEN <<>>
                                            ELSE save_path_array(survey_df)
                         ELSE UNCHANGED <<distances, path>>
    /\ UNCHANGED <<max_depth_col, invert_z>>
    /\ UNCHANGED <<b_op, collar_df, child_df, child_kind, attribute_vars, bbox_vars, attributes_vars, pointset_vars, tool_vars, context_vars, agent_vars, duplicate_vars>>

(* ------------------------- attribute typer ---------------------------- *)
\* A cell is a token: a string of the column, a number written out, or the
\* missing marker (None / NaN), which no string of a column equals.
Missing == "<missing>"

StringCells == {"A", "B", "", Missing}
CategoryCells == {"A", "B", Missing}
FloatCells == {"1.0", "2.0", Missing}
IntCells == {"1", "2"}

\* str(data.dtype), and the cells a column of that kind holds.
Dtypes == {"object", "string", "float64", "int64", "uint64", "category"}

CellsOf(dtype) ==
    CASE dtype \in {"object", "string"} -> StringCells
      [] dtype = "category" -> CategoryCells
      [] dtype = "float64" -> FloatCells
      [] OTHER -> IntCells

\* Series.fillna(""): the missing marker becomes the empty string.
fillna_empty(data) == [i \in 1..Len(data) |-> IF data[i] = Missing THEN "" ELSE data[i]]

\* Series.astype(str): every cell's text; the text of a missing value is "nan".
astype_str(data) == [i \in 1..Len(data) |-> IF data[i] = Missing THEN "nan" ELSE data[i]]

\* pd.to_numeric(data, errors='coerce'): what is no number becomes NaN.
to_numeric(data) ==
    [i \in 1..Len(data) |-> IF data[i] \in FloatCells \cup IntCells THEN data[i] ELSE Missing]

\* The lookup and the codes of a cleaned column: keys 1..K over the
\* distinct values, each cell mapped through dict(zip(value, key)).
category_lookup(clean_data) ==
    LET unique_values == unique(clean_data)
    IN [k \in 1..Len(unique_values) |-> [key |-> k, value |-> unique_values[k]]]

category_codes(clean_data, lookup_df) ==
    [i \in 1..Len(clean_data) |-> id_to_key(lookup_df, clean_data[i])]

\* The names of attribute columns, and the characters of each.
AttributeNames == {"au", "Au", "Au ppm", "au-ppm", "au_ppm", "lith"}

Chars(name) ==
    CASE name = "au" -> <<"a", "u">>
      [] name = "Au" -> <<"A", "u">>
      [] name = "Au ppm" -> <<"A", "u", " ", "p", "p", "m">>
      [] name = "au-ppm" -> <<"a", "u", "-", "p", "p", "m">>
      [] name = "au_ppm" -> <<"a", "u", "_", "p", "p", "m">>
      [] name = "lith" -> <<"l", "i", "t", "h">>
      [] name = "x" -> <<"x">>

\* str.lower(), character by character, over the characters of the names.
lower_char(c) == IF c = "A" THEN "a" ELSE c

str_lower(chars) == [i \in 1..Len(chars) |-> lower_char(chars[i])]

\* str.replace(old, new) for a one-character old.
str_replace(chars, old, new) == [i \in 1..Len(chars) |-> IF chars[i] = old THEN new ELSE chars[i]]

\* A key that is the name as given.
key_verbatim(chars) == chars

\* A key derivation that forgets the dashes.
category_key_dashes_kept(chars) == str_replace(str_lower(chars), " ", "_")

\* key = name.lower().replace(' ', '_').replace('-', '_'), as
\* build_category_attribute and build_continuous_attribute each write it.
category_key(chars) == str_replace(str_replace(str_lower(chars), " ", "_"), "-", "_")

continuous_key(chars) == str_replace(str_replace(str_lower(chars), " ", "_"), "-", "_")

build_category_attribute(data, name) ==
    LET clean_data == astype_str(fillna_empty(data))
        lookup_df == category_lookup(clean_data)
    IN [type |-> "category", name |-> name, key |-> category_key(Chars(name)),
        table |-> lookup_df, values |-> category_codes(clean_data, lookup_df)]

build_continuous_attribute(data, name) ==
    [type |-> "continuous", name |-> name, key |-> continuous_key(Chars(name)),
     table |-> <<>>, values |-> to_numeric(data)]

UnknownDtypeWarning(dtype, name) == [unknown_dtype |-> dtype, column |-> name]

\* A typer that takes every kind it does not know for a number.
build_attribute_numeric_fallback(dtype, data, name) ==
    IF dtype = "object" \/ dtype \in {"string", "str"}
    THEN [attr |-> build_category_attribute(data, name), warnings |-> <<>>]
    ELSE [attr |-> build_continuous_attribute(data, name), warnings |-> <<>>]

\* build_attribute: [attr, warnings], decided by the declared kind alone.
build_attribute(dtype, data, name) ==
    IF dtype = "object" \/ dtype \in {"string", "str"}
    THEN [attr |-> build_category_attribute(data, name), warnings |-> <<>>]
    ELSE IF dtype \in {"float64", "float32", "int64", "int32", "float", "int"}
         THEN [attr |-> build_continuous_attribute(data, name), warnings |-> <<>>]
         ELSE [attr |-> build_category_attribute(astype_str(data), name),
               warnings |-> <<UnknownDtypeWarning(dtype, name)>>]

\* DownholeIntervalsBuilder.build, the hole id category data.
intervals_hole_id(data) ==
    LET clean_ids == astype_str(fillna_empty(data))
        lookup_df == category_lookup(clean_ids)
    IN [type |-> "category", table |-> lookup_df,
        values |-> category_codes(clean_ids, lookup_df)]

InitAttribute ==
    /\ b_op = "attribute"
    /\ b_pc = "input"
    /\ a_dtype \in Dtypes
    /\ a_data \in SeqsUpTo(CellsOf(a_dtype), MaxColumn)
    /\ a_name \in AttributeNames
    /\ a_attr = NoAttribute
    /\ a_warnings = <<>>
    /\ IdleCollection
    /\ IdleBBox
    /\ IdleAttributes
    /\ IdlePointset
    /\ IdleTool
    /\ IdleContext
    /\ IdleAgent
    /\ IdleDuplicate

BaseObjectBuilder_build_attribute ==
    /\ b_op = "attribute"
    /\ b_pc = "input"
    /\ b_pc' = "built"
    /\ a_attr' = build_attribute(a_dtype, a_data, a_name).attr
    /\ a_warnings' = build_attribute(a_dtype, a_data, a_name).warnings
    /\ UNCHANGED <<b_op, a_dtype, a_data, a_name, collection_vars, bbox_vars, attributes_vars, pointset_vars, tool_vars, context_vars, agent_vars, duplicate_vars>>

InitIntervalsHoleId ==
    /\ b_op = "intervals_hole_id"
    /\ b_pc = "input"
    /\ a_dtype = "object"
    /\ a_data \in SeqsUpTo(StringCells, MaxColumn)
    /\ a_name = ""
    /\ a_attr = NoAttribute
    /\ a_warnings = <<>>
    /\ IdleCollection
    /\ IdleBBox
    /\ IdleAttributes
    /\ IdlePointset
    /\ IdleTool
    /\ IdleContext
    /\ IdleAgent
    /\ IdleDuplicate

DownholeIntervalsBuilder_hole_id ==
    /\ b_op = "intervals_hole_id"
    /\ b_pc = "input"
    /\ b_pc' = "built"
    /\ a_attr' = intervals_hole_id(a_data)
    /\ UNCHANGED <<b_op, a_dtype, a_data, a_name, a_warnings, collection_vars, bbox_vars, attributes_vars, pointset_vars, tool_vars, context_vars, agent_vars, duplicate_vars>>

(* ----------------------- build_attributes ----------------------------- *)
\* The columns of a table: a coordinate column, two float columns whose
\* names differ in case only, and a column of a kind build_attribute does
\* not recognise.
ColumnNames == {"x", "au", "Au", "lith"}

ColumnDtype(col) == IF col = "lith" THEN "category" ELSE "float64"

\* The texts of the exceptions a column's conversion may raise.
ConversionErrors == {"boom", "bang"}

FailureWarning(col, text) == [failed |-> col, exception |-> text]

\* A loop body whose except clause records nothing.
build_one_silent(df_columns, col, exclude, raises) ==
    LET built == build_attribute(ColumnDtype(col), <<>>, col)
    IN IF col \in df_columns /\ col \notin exclude
       THEN IF raises[col] = ""
            THEN [attributes |-> <<[name |-> col, type |-> built.attr.type, key |-> built.attr.key]>>,
                  warnings |-> built.warnings]
            ELSE [attributes |-> <<>>, warnings |-> built.warnings]
       ELSE NoAttributes

\* One pass of the loop "for col in columns": a column that is in the table
\* and not excluded is converted; if the conversion raises, its exception
\* becomes one warning and the loop goes on.  build_attribute's own warning
\* (unknown dtype) is recorded before the conversion starts.
build_one(df_columns, col, exclude, raises) ==
    LET built == build_attribute(ColumnDtype(col), <<>>, col)
    IN IF col \in df_columns /\ col \notin exclude
       THEN IF raises[col] = ""
            THEN [attributes |-> <<[name |-> col, type |-> built.attr.type, key |-> built.attr.key]>>,
                  warnings |-> built.warnings]
            ELSE [attributes |-> <<>>,
                  warnings |-> built.warnings \o <<FailureWarning(col, raises[col])>>]
       ELSE NoAttributes

RECURSIVE build_attributes(_, _, _, _)
build_attributes(df_columns, columns, exclude, raises) ==
    IF columns = <<>> THEN NoAttributes
    ELSE LET first == build_one(df_columns, Head(columns), exclude, raises)
             rest == build_attributes(df_columns, Tail(columns), exclude, raises)
         IN [attributes |-> first.attributes \o rest.attributes,
             warnings |-> first.warnings \o rest.warnings]

\* Which conversions raise, and with what text; the coordinate column's never.
RaisesMaps == {r \in [ColumnNames -> {""} \cup ConversionErrors] : r["x"] = ""}

InitAttributes ==
    /\ b_op = "attributes"
    /\ b_pc = "input"
    /\ \E present \in SUBSET (ColumnNames \ {"x"}),
          columns \in SeqsUpTo(ColumnNames, MaxRequested), raises \in RaisesMaps :
         at_in = [df_columns |-> present \cup {"x"}, columns |-> columns,
                  exclude |-> {"x"}, raises |-> raises]
    /\ at_out = NoAttributes
    /\ IdleCollection
    /\ IdleAttribute
    /\ IdleBBox
    /\ IdlePointset
    /\ IdleTool
    /\ IdleContext
    /\ IdleAgent
    /\ IdleDuplicate

BaseObjectBuilder_build_attributes ==
    /\ b_op = "attributes"
    /\ b_pc = "input"
    /\ b_pc' = "built"
    /\ at_out' = build_attributes(at_in.df_columns, at_in.columns, at_in.exclude, at_in.raises)
    /\ UNCHANGED <<b_op, at_in, collection_vars, attribute_vars, bbox_vars, pointset_vars, tool_vars, context_vars, agent_vars, duplicate_vars>>

(* -------------------- bounding box, on its own ------------------------ *)
CoordValues == FiniteCoords \cup {NaN, PosInf, NegInf}

\* Coordinate rows: all finite, or one coordinate missing or infinite, or
\* all three missing.
CoordRows ==
    {r \in [1..3 -> CoordValues] :
        \/ Cardinality({a \in 1..3 : ~isfinite(r[a])}) <= 1
        \/ \A a \in 1..3 : r[a] = NaN}

InitBBox ==
    /\ b_op = "bounding_box"
    /\ b_pc = "input"
    /\ bb_df \in SeqsUpTo(CoordRows, MaxPoints)
    /\ bb_out = NoBBox
    /\ IdleCollection
    /\ IdleAttribute
    /\ IdleAttributes
    /\ IdlePointset
    /\ IdleTool
    /\ IdleContext
    /\ IdleAgent
    /\ IdleDuplicate

BaseObjectBuilder_build_bounding_box ==
    /\ b_op = "bounding_box"
    /\ b_pc = "input"
    /\ bb_out' = build_bounding_box(bb_df)
    /\ b_pc' = IF bb_out'.raised /= "" THEN "raised" ELSE "built"
    /\ UNCHANGED <<b_op, bb_df, collection_vars, attribute_vars, attributes_vars, pointset_vars, tool_vars, context_vars, agent_vars, duplicate_vars>>

(* ----------------------- PointsetBuilder.build ------------------------ *)
\* A pointset table: "x" stands for the three coordinate columns, "au" is a
\* float column, "lith" a column of a kind build_attribute does not
\* recognise.  A row is [x, au, lith].
PointCoords == {<<0, 0, 0>>, <<1, 1, 1>>, <<NaN, 0, 0>>}
AuCells == {"1.0", Missing}
LithCells == {"A", "B"}
PointRows == [x : PointCoords, au : AuCells, lith : LithCells]

\* df.columns, in the table's column order.
ColumnOrders == {<<"x", "au", "lith">>, <<"lith", "x", "au">>, <<"au", "lith", "x">>}

\* The attribute_columns argument: None, or a list.
Columns(list) == [given |-> TRUE, list |-> list]
None == [given |-> FALSE, list |-> <<>>]
AttributeColumnArguments ==
    {None, Columns(<<>>), Columns(<<"lith", "au">>), Columns(<<"x", "au">>)}

\* A tool that hands the argument on as it is.
attr_cols_verbatim(attribute_columns) == attribute_columns

\* The tool's attr_cols = attribute_columns if attribute_columns else None.
attr_cols(attribute_columns) ==
    IF attribute_columns.given /\ attribute_columns.list /= <<>> THEN attribute_columns ELSE None

\* df[col]
column_of(rows, col) == [i \in 1..Len(rows) |-> rows[i][col]]

\* [c for c in df.columns if c not in coord_cols]
auto_detect(columns, coord_cols) ==
    LET not_coordinate(c) == c \notin coord_cols
    IN SelectSeq(columns, not_coordinate)

\* A save that keeps only the rows whose coordinates are all present.
save_float_array3_valid_only(rows) ==
    LET coords == column_of(rows, "x")
        present(r) == \A a \in 1..3 : notna(r[a])
    IN SelectSeq(coords, present)

\* save_float_array3(df, x, y, z): the three columns of every row.
save_float_array3(rows) == column_of(rows, "x")

\* build(): the coordinates are saved, the attributes are built from the
\* listed columns (every non-coordinate column when the argument is None),
\* the coordinate columns excluded, then the bounding box, which may raise.
PointsetBuilder_build_result(columns, rows, attribute_columns) ==
    LET coord_cols == {"x"}
        listed == IF ~attribute_columns.given THEN auto_detect(columns, coord_cols)
                  ELSE attribute_columns.list
        built == build_attributes(Range(columns), listed, coord_cols,
                                  [c \in ColumnNames |-> ""]).attributes
        attributes == [k \in DOMAIN built |->
                          build_attribute(ColumnDtype(built[k].name),
                                          column_of(rows, built[k].name), built[k].name).attr]
        bbox == build_bounding_box(column_of(rows, "x"))
    IN [raised |-> bbox.raised, coordinates |-> save_float_array3(rows),
        attributes |-> attributes, box |-> bbox.box]

\* build() is called by the tool, which turns an empty list into None
\* first, or directly.
InitPointset ==
    /\ b_op = "pointset"
    /\ b_pc = "input"
    /\ \E columns \in ColumnOrders, rows \in SeqsUpTo(PointRows, MaxPoints),
          a \in AttributeColumnArguments, via_tool \in BOOLEAN :
         ps_in = [columns |-> columns, rows |-> rows, attribute_columns |-> a,
                  via_tool |-> via_tool]
    /\ ps_out = NoPointset
    /\ IdleCollection
    /\ IdleAttribute
    /\ IdleBBox
    /\ IdleAttributes
    /\ IdleTool
    /\ IdleContext
    /\ IdleAgent
    /\ IdleDuplicate

PointsetBuilder_build ==
    /\ b_op = "pointset"
    /\ b_pc = "input"
    /\ ps_out' = PointsetBuilder_build_result(
                     ps_in.columns, ps_in.rows,
                     IF ps_in.via_tool THEN attr_cols(ps_in.attribute_columns)
                     ELSE ps_in.attribute_columns)
    /\ b_pc' = IF ps_out'.raised /= "" THEN "raised" ELSE "built"
    /\ UNCHANGED <<b_op, ps_in, collection_vars, attribute_vars, bbox_vars, attributes_vars,
                   tool_vars, context_vars, agent_vars, duplicate_vars>>

(* ----------------------- the builder primitives ----------------------- *)
InitBuilder ==
    \/ InitCollection \/ InitAttribute \/ InitIntervalsHoleId \/ InitBBox \/ InitAttributes
    \/ InitPointset

NextBuilder ==
    \/ DownholeCollectionBuilder_build
    \/ BaseObjectBuilder_build_attribute
    \/ DownholeIntervalsBuilder_hole_id
    \/ BaseObjectBuilder_build_bounding_box
    \/ BaseObjectBuilder_build_attributes
    \/ PointsetBuilder_build

SpecBuilder == InitBuilder /\ [][NextBuilder]_vars

(* =========================== the build tools =========================== *)
\* What a CSV path of a call leads to: no file, a file lacking one of the
\* required columns, or a file that has them.
FileStates == {"not_found", "missing_columns", "ok"}

\* The segments file may also have its index columns filled with text, which
\* read_csv loads as an object column.
SegmentFileStates == FileStates \cup {"text_indices"}

\* max_depth_column: not given, given and in the collar file, given and absent.
MaxDepthStates == {"not_given", "present", "absent"}

\* Coordinate rows of a tool's table: finite, one missing, one infinite.
ToolCoordRows == {<<0, 0, 0>>, <<1, 1, 1>>, <<NaN, 0, 0>>, <<PosInf, 0, 0>>}

ToolCoordTables == SeqsUpTo(ToolCoordRows, MaxPoints)

\* Segment rows <<start, end>>: vertex positions, one past the last vertex
\* of the largest table, a negative position, or a missing cell (NaN).
SegmentRows ==
    {<<0, 1>>, <<1, 0>>, <<0, MaxPoints>>, <<MaxPoints, 0>>,
     <<0 - 1, 0>>, <<0, 0 - 1>>, <<NaN, 0>>, <<0, NaN>>}

SegmentTables == SeqsUpTo(SegmentRows, MaxSegments)

\* The rows read from a path: a table only where the file has its columns.
TableOf(file_state, tables) == IF file_state = "ok" THEN tables ELSE {<<>>}

\* The arguments and files a call of each tool may be given.
\* The columns of the pointset CSV: the coordinates ("x" stands for the
\* three) and one float column.
CsvColumns == {"x", "au"}

\* attribute_columns: empty (auto-detect), a column of the CSV, or a list
\* that also names a column the CSV does not have.
AttributeLists == {<<>>, <<"au">>, <<"au", "lith">>}

PointsetInput ==
    \E d \in BOOLEAN, f \in FileStates, a \in AttributeLists :
        \E t \in TableOf(f, ToolCoordTables) :
            inp = [tool |-> "pointset", dry_run |-> d, csv_file |-> f, df |-> t,
                   attribute_columns |-> a]

LineSegmentsInput ==
    \E d \in BOOLEAN, vf \in FileStates, sf \in SegmentFileStates :
        \E v \in TableOf(vf, ToolCoordTables), g \in TableOf(sf, SegmentTables) :
            inp = [tool |-> "line_segments", dry_run |-> d,
                   vertices_file |-> vf, segments_file |-> sf,
                   vertices_df |-> v, segments_df |-> g]

DownholeCollectionInput ==
    \E d \in BOOLEAN, cf \in FileStates, sf \in FileStates, md \in MaxDepthStates :
        \E c \in TableOf(cf, ToolCoordTables),
           iv \in SeqsUpTo(FileStates, MaxIntervalFiles) :
            inp = [tool |-> "downhole_collection", dry_run |-> d,
                   collar_file |-> cf, survey_file |-> sf, max_depth_column |-> md,
                   collar_df |-> c, interval_files |-> iv]

DownholeIntervalsInput ==
    \E d \in BOOLEAN, f \in FileStates : \E t \in TableOf(f, ToolCoordTables) :
        inp = [tool |-> "downhole_intervals", dry_run |-> d, csv_file |-> f, df |-> t]

(* ------------------------- local validation --------------------------- *)
\* What the code before the dry-run test decides: the status returned, ""
\* when validation passes; the exception that leaves the tool, "" when
\* none does; and result["errors"].
Verdict(st, ex, errs) == [status |-> st, raised |-> ex, errors |-> errs]

Passed == Verdict("", "", <<>>)

\* df[coord_cols].isna().any(axis=1).sum()
nan_count(df) == Cardinality({r \in DOMAIN df : \E a \in 1..3 : ~notna(df[r][a])})

\* Series.max(): the largest value that is not missing, NaN when none is.
series_max(column) ==
    LET present == {column[r] : r \in {q \in DOMAIN column : notna(column[q])}}
    IN IF present = {} THEN NaN ELSE MaxOf(present)

\* a > b on floats: false when a is NaN.
greater(a, b) == notna(a) /\ a > b

\* start_max > max_vertex_idx or end_max > max_vertex_idx
indices_exceed_never(vertices_df, segments_df) == FALSE

indices_exceed(vertices_df, segments_df) ==
    LET max_vertex_idx == Len(vertices_df) - 1
        start_max == series_max([r \in DOMAIN segments_df |-> segments_df[r][1]])
        end_max == series_max([r \in DOMAIN segments_df |-> segments_df[r][2]])
    IN greater(start_max, max_vertex_idx) \/ greater(end_max, max_vertex_idx)

validate_pointset(i) ==
    IF i.csv_file = "not_found" THEN Verdict("error", "", <<>>)
    ELSE IF i.csv_file = "missing_columns"
    THEN Verdict("validation_failed", "", <<"Missing required columns">>)
    ELSE IF nan_count(i.df) = Len(i.df)
    THEN Verdict("validation_failed", "", <<"All rows have NaN coordinates">>)
    ELSE Passed

validate_line_segments(i) ==
    LET column_errors ==
            (IF i.vertices_file = "missing_columns"
             THEN <<"Missing vertex columns">> ELSE <<>>)
            \o (IF i.segments_file = "missing_columns"
                THEN <<"Missing segment columns">> ELSE <<>>)
    IN IF i.vertices_file = "not_found" \/ i.segments_file = "not_found"
       THEN Verdict("error", "", <<>>)
       ELSE IF column_errors /= <<>>
       THEN Verdict("validation_failed", "", column_errors)
       ELSE IF i.segments_file = "text_indices"
       THEN Verdict("", "TypeError", <<>>)
       ELSE IF indices_exceed(i.vertices_df, i.segments_df)
       THEN Verdict("validation_failed", "", <<"Segment indices exceed vertex count">>)
       ELSE IF nan_count(i.vertices_df) = Len(i.vertices_df)
       THEN Verdict("validation_failed", "", <<"No valid vertex coordinates found">>)
       ELSE Passed

\* The loop over interval_files: a file not found or lacking columns adds
\* an error and the loop goes on to the next file.
RECURSIVE interval_file_errors(_)
interval_file_errors(files) ==
    IF files = <<>> THEN <<>>
    ELSE (IF Head(files) = "not_found" THEN <<"Interval file not found">>
          ELSE IF Head(files) = "missing_columns" THEN <<"Interval missing columns">>
          ELSE <<>>) \o interval_file_errors(Tail(files))

validate_downhole_collection(i) ==
    LET column_errors ==
            (IF i.collar_file = "missing_columns"
             THEN <<"Missing collar columns">> ELSE <<>>)
            \o (IF i.max_depth_column = "absent"
                THEN <<"Max depth column not found">> ELSE <<>>)
            \o (IF i.survey_file = "missing_columns"
                THEN <<"Missing survey columns">> ELSE <<>>)
    IN IF i.collar_file = "not_found" \/ i.survey_file = "not_found"
       THEN Verdict("error", "", <<>>)
       ELSE IF column_errors /= <<>>
       THEN Verdict("validation_failed", "", column_errors)
       ELSE IF nan_count(i.collar_df) = Len(i.collar_df)
       THEN Verdict("validation_failed", "", <<"All collar rows have NaN coordinates">>)
       ELSE IF interval_file_errors(i.interval_files) /= <<>>
       THEN Verdict("validation_failed", "", interval_file_errors(i.interval_files))
       ELSE Passed

validate_downhole_intervals(i) ==
    IF i.csv_file = "not_found" THEN Verdict("error", "", <<>>)
    ELSE IF i.csv_file = "missing_columns"
    THEN Verdict("validation_failed", "", <<"Missing required columns">>)
    ELSE IF nan_count(i.df) = Len(i.df)
    THEN Verdict("validation_failed", "", <<"All rows have NaN midpoint coordinates">>)
    ELSE Passed

validate(i) ==
    CASE i.tool = "pointset" -> validate_pointset(i)
      [] i.tool = "line_segments" -> validate_line_segments(i)
      [] i.tool = "downhole_collection" -> validate_downhole_collection(i)
      [] i.tool = "downhole_intervals" -> validate_downhole_intervals(i)

\* if dry_run: return {"status": "validation_passed", ...}
dry_run_returns(i) == i.dry_run

(* ------------------------------ uint64 -------------------------------- *)
\* An unsigned 64-bit value is four 16-bit limbs, most significant first.
LimbBase == 65536

\* astype('uint64') of an int64 cell: the value modulo 2^64.  A negative
\* value -n becomes 2^64 - n.
astype_uint64(v) ==
    IF v >= 0 THEN <<0, 0, 0, v % LimbBase>>
    ELSE <<LimbBase - 1, LimbBase - 1, LimbBase - 1, v % LimbBase>>

\* The uint64 value is one of 0 .. n-1.
uint64_below(u, n) == u[1] = 0 /\ u[2] = 0 /\ u[3] = 0 /\ u[4] < n

(* ----------------------------- the builds ----------------------------- *)
\* What build() hands to save_table, in order, and the exception it ends
\* with ("" when it returns the object).
Table(name, rows) == [table |-> name, rows |-> rows]

Built(tables, ex) == [saved |-> tables, raised |-> ex]

\* save_index_array2: arr.astype('uint64') raises on a missing cell, which
\* makes the column float64; an int64 column is cast cell by cell.
has_missing_index(segments_df) ==
    \E r \in DOMAIN segments_df : ~notna(segments_df[r][1]) \/ ~notna(segments_df[r][2])

save_index_array2(segments_df) ==
    Table("indices", [r \in DOMAIN segments_df |->
        <<astype_uint64(segments_df[r][1]), astype_uint64(segments_df[r][2])>>])

\* attr_cols = attribute_columns if attribute_columns else None, and in the
\* builder "if attribute_columns is None": every column but the coordinates.
pointset_attribute_columns(i) ==
    IF i.attribute_columns = <<>> THEN <<"au">> ELSE i.attribute_columns

\* build_attributes over the pointset's table; no conversion raises.
pointset_attributes(i) ==
    build_attributes(CsvColumns, pointset_attribute_columns(i), {"x"},
                     [c \in ColumnNames |-> ""]).attributes

\* One table per continuous attribute (save_float_array1).
attribute_tables(attributes) ==
    [k \in DOMAIN attributes |-> Table(attributes[k].name, <<>>)]

\* PointsetBuilder.build: the coordinates are saved, then the attributes
\* are built, then the bounding box.
build_pointset(i) ==
    Built(<<Table("coordinates", i.df)>> \o attribute_tables(pointset_attributes(i)),
          build_bounding_box(i.df).raised)

\* The attributes of the object a tool's build returns.
built_attributes(i) == IF i.tool = "pointset" THEN pointset_attributes(i) ELSE <<>>

\* LineSegmentsBuilder.build: vertices, then indices, then the bounding box.
build_line_segments(i) ==
    IF has_missing_index(i.segments_df)
    THEN Built(<<Table("vertices", i.vertices_df)>>, "IntCastingNaNError")
    ELSE Built(<<Table("vertices", i.vertices_df), save_index_array2(i.segments_df)>>,
               build_bounding_box(i.vertices_df).raised)

\* DownholeCollectionBuilder.build: the bounding box first, then the
\* location tables, then two tables per interval collection.
RECURSIVE interval_tables(_)
interval_tables(files) ==
    IF files = <<>> THEN <<>>
    ELSE <<Table("intervals", <<>>), Table("holes", <<>>)>> \o interval_tables(Tail(files))

build_downhole_collection(i) ==
    IF build_bounding_box(i.collar_df).raised /= ""
    THEN Built(<<>>, build_bounding_box(i.collar_df).raised)
    ELSE Built(<<Table("coordinates", i.collar_df), Table("distances", <<>>),
                 Table("hole_id.table", <<>>), Table("hole_id.values", <<>>),
                 Table("holes", <<>>), Table("path", <<>>)>>
               \o interval_tables(i.interval_files), "")

\* DownholeIntervalsBuilder.build: start, end, mid, from-to and the hole id
\* tables are saved, then the bounding box of the midpoints.
build_downhole_intervals(i) ==
    Built(<<Table("start", <<>>), Table("end", <<>>), Table("mid_points", i.df),
            Table("from_to", <<>>), Table("hole_id.table", <<>>),
            Table("hole_id.values", <<>>)>>,
          build_bounding_box(i.df).raised)

builder_build(i) ==
    CASE i.tool = "pointset" -> build_pointset(i)
      [] i.tool = "line_segments" -> build_line_segments(i)
      [] i.tool = "downhole_collection" -> build_downhole_collection(i)
      [] i.tool = "downhole_intervals" -> build_downhole_intervals(i)

(* ------------------------- one tool invocation ------------------------ *)
\* A finished call of a collaborator: how it ended and, when it raised, the
\* text of its exception.
Call(fn, outcome, text) == [fn |-> fn, outcome |-> outcome, text |-> text]

Outcomes == {"ok", "raise"}

\* The texts a collaborator's exception may carry.
ErrorTexts == {"transient", "permanent"}

TextsOf(outcome) == IF outcome = "ok" THEN {""} ELSE ErrorTexts

RECURSIVE save_table_calls(_)
save_table_calls(tables) ==
    IF tables = <<>> THEN <<>>
    ELSE <<Call("save_table", "ok", "")>> \o save_table_calls(Tail(tables))

\* except Exception around from_dict: the status the tool returns at once,
\* "" when the parse succeeded and the tool goes on.
reparse_failure_ignored(outcome) == ""

reparse_return(outcome) == IF outcome = "raise" THEN "schema_validation_failed" ELSE ""

\* The outer except Exception around the awaited upload: the status the
\* tool returns at once, "" when the upload completed and the tool goes on
\* to create.
upload_failure_ignored(outcome) == ""

upload_return(outcome) == IF outcome = "raise" THEN "creation_failed" ELSE ""

Init ==
    /\ IdleBuilder
    /\ \/ PointsetInput
       \/ LineSegmentsInput
       \/ DownholeCollectionInput
       \/ DownholeIntervalsInput
    /\ pc = "start"
    /\ status = ""
    /\ errors = <<>>
    /\ calls = <<>>
    /\ saved = <<>>
    /\ created = <<>>
    /\ error = ""
    /\ IdleContext
    /\ IdleAgent
    /\ IdleDuplicate

\* The tool body up to and including the dry-run return.
Validate ==
    /\ pc = "start"
    /\ LET v == validate(inp)
       IN /\ errors' = v.errors
          /\ IF v.raised /= ""
             THEN pc' = "raised" /\ status' = ""
             ELSE IF v.status /= ""
             THEN pc' = "returned" /\ status' = v.status
             ELSE IF dry_run_returns(inp)
             THEN pc' = "returned" /\ status' = "validation_passed"
             ELSE pc' = "ensure_initialized" /\ status' = ""
          /\ error' = v.raised
    /\ UNCHANGED <<inp, calls, saved, created, builder_vars, context_vars, agent_vars, duplicate_vars>>

\* await ensure_initialized(), outside the try: its exception leaves the tool.
EnsureInitialized ==
    /\ pc = "ensure_initialized"
    /\ \E outcome \in Outcomes : \E text \in TextsOf(outcome) :
         /\ calls' = Append(calls, Call("ensure_initialized", outcome, text))
         /\ error' = text
         /\ pc' = IF outcome = "ok" THEN "get_object_client" ELSE "raised"
    /\ UNCHANGED <<inp, status, errors, saved, created, builder_vars, context_vars, agent_vars, duplicate_vars>>

\* get_object_client, Cache and get_data_client, inside the try.
GetObjectClient ==
    /\ pc = "get_object_client"
    /\ \E outcome \in Outcomes : \E text \in TextsOf(outcome) :
         /\ calls' = Append(calls, Call("get_object_client", outcome, text))
         /\ error' = text
         /\ IF outcome = "ok"
            THEN pc' = "build" /\ status' = ""
            ELSE pc' = "returned" /\ status' = "creation_failed"
    /\ UNCHANGED <<inp, errors, saved, created, builder_vars, context_vars, agent_vars, duplicate_vars>>

\* builder.build(...) and obj.as_dict().
Build ==
    /\ pc = "build"
    /\ LET b == builder_build(inp)
       IN /\ saved' = saved \o b.saved
          /\ calls' = calls \o save_table_calls(b.saved)
          /\ IF b.raised = ""
             THEN pc' = "reparse" /\ status' = ""
             ELSE pc' = "returned" /\ status' = "creation_failed"
          /\ error' = b.raised
    /\ UNCHANGED <<inp, errors, created, builder_vars, context_vars, agent_vars, duplicate_vars>>

\* <schema class>.from_dict(obj_dict)
Reparse ==
    /\ pc = "reparse"
    /\ \E outcome \in Outcomes : \E text \in TextsOf(outcome) :
         /\ calls' = Append(calls, Call("from_dict", outcome, text))
         /\ error' = text
         /\ status' = reparse_return(outcome)
         /\ pc' = IF reparse_return(outcome) /= "" THEN "returned" ELSE "upload"
    /\ UNCHANGED <<inp, errors, saved, created, builder_vars, context_vars, agent_vars, duplicate_vars>>

\* await data_client.upload_referenced_data(obj_dict)
Upload ==
    /\ pc = "upload"
    /\ \E outcome \in Outcomes : \E text \in TextsOf(outcome) :
         /\ calls' = Append(calls, Call("upload_referenced_data", outcome, text))
         /\ error' = text
         /\ status' = upload_return(outcome)
         /\ pc' = IF upload_return(outcome) /= "" THEN "returned" ELSE "create"
    /\ UNCHANGED <<inp, errors, saved, created, builder_vars, context_vars, agent_vars, duplicate_vars>>

\* await object_client.create_geoscience_object(object_path, obj_dict)
Create ==
    /\ pc = "create"
    /\ \E outcome \in Outcomes : \E text \in TextsOf(outcome) :
         /\ calls' = Append(calls, Call("create_geoscience_object", outcome, text))
         /\ error' = text
         /\ pc' = "returned"
         /\ IF outcome = "ok"
            THEN /\ status' = "created"
                 /\ created' = Append(created, [tool |-> inp.tool, tables |-> saved,
                                              attributes |-> built_attributes(inp)])
            ELSE /\ status' = "creation_failed"
                 /\ UNCHANGED created
    /\ UNCHANGED <<inp, errors, saved, builder_vars, context_vars, agent_vars, duplicate_vars>>

Next ==
    \/ Validate
    \/ EnsureInitialized
    \/ GetObjectClient
    \/ Build
    \/ Reparse
    \/ Upload
    \/ Create

Spec == Init /\ [][Next]_vars

(* =========================== the Evo context =========================== *)
\* discovery_client.list_organizations(): the instances the user can reach,
\* in the order the service lists them.
organizations == <<"A", "B", "C">>

Instances == Range(organizations)

\* The fields of evo_context and the two cache files, as one record; raised
\* is the exception initialize() ended with, "" when it returned.
Context ==
    [initialized |-> initialized, org_id |-> org_id, hub_url |-> hub_url,
     client |-> client, cache_variables |-> cache_variables,
     token_cached |-> token_cached, raised |-> ""]

\* load_variables_from_cache: org_id and hub_url from variables.json, when
\* the file exists.
load_variables_from_cache(c) ==
    IF c.cache_variables = NoAddress THEN c
    ELSE [c EXCEPT !.org_id = c.cache_variables.org, !.hub_url = c.cache_variables.hub]

\* The rest of initialize() once the authorizer is there: the default
\* organisation when org_id or hub_url is unset, a connector and a workspace
\* client for (hub_url, org_id), and save_variables_to_cache.
connect(c) ==
    LET unset == c.org_id = NoInstance \/ c.hub_url = HubOf(NoInstance)
        org == IF unset THEN organizations[1] ELSE c.org_id
        hub == IF unset THEN HubOf(organizations[1]) ELSE c.hub_url
    IN [c EXCEPT !.org_id = org, !.hub_url = hub, !.client = Address(org, hub),
                 !.initialized = TRUE, !.cache_variables = Address(org, hub),
                 !.token_cached = TRUE]

\* EvoContext.initialize(): nothing when already initialised with a valid
\* cached token; login is how the OAuth login ends when no valid token is
\* cached.
initialize(c, login) ==
    IF c.initialized /\ c.token_cached THEN c
    ELSE IF ~c.token_cached /\ login = "raise"
    THEN [load_variables_from_cache(c) EXCEPT !.raised = "login"]
    ELSE connect(load_variables_from_cache(c))

SetContext(c) ==
    /\ initialized' = c.initialized
    /\ org_id' = c.org_id
    /\ hub_url' = c.hub_url
    /\ client' = c.client
    /\ cache_variables' = c.cache_variables
    /\ token_cached' = c.token_cached

\* A fresh server process; the cache files are what earlier runs left.
FreshContext ==
    /\ initialized = FALSE
    /\ org_id = NoInstance
    /\ hub_url = HubOf(NoInstance)
    /\ client = NoAddress
    /\ cache_variables \in {NoAddress} \cup {Address(i, HubOf(i)) : i \in Instances}
    /\ token_cached \in BOOLEAN
    /\ selected = NoInstance
    /\ addressed = NoAddress

InitContext ==
    /\ IdleBuilder
    /\ IdleTool
    /\ IdleAgent
    /\ FreshContext
    /\ IdleDuplicate

\* The select_instance tool: the first listed instance whose id or display
\* name is the argument becomes org_id and hub_url, which are saved to the
\* cache; the instance is returned, None when nothing matches.
select_instance ==
    /\ \E arg \in Instances \cup {"unknown"}, login \in Outcomes :
         LET c == initialize(Context, login)
         IN IF c.raised = "" /\ arg \in Instances
            THEN /\ SetContext([c EXCEPT !.org_id = arg, !.hub_url = HubOf(arg),
                                         !.cache_variables = Address(arg, HubOf(arg))])
                 /\ selected' = arg
                 /\ addressed' = NoAddress
            ELSE /\ SetContext(c)
                 /\ UNCHANGED <<selected, addressed>>
    /\ UNCHANGED <<builder_vars, tool_vars, agent_vars, duplicate_vars>>

\* The list_workspaces tool: ensure_initialized, then
\* evo_context.workspace_client.list_workspaces(...).
list_workspaces ==
    /\ \E login \in Outcomes :
         LET c == initialize(Context, login)
         IN /\ SetContext(c)
            /\ addressed' = IF c.raised = "" THEN c.client ELSE addressed
    /\ UNCHANGED <<selected, builder_vars, tool_vars, agent_vars, duplicate_vars>>

\* The cached access token expires.
TokenExpires ==
    /\ token_cached
    /\ token_cached' = FALSE
    /\ UNCHANGED <<initialized, org_id, hub_url, client, cache_variables, selected,
                   addressed, builder_vars, tool_vars, agent_vars, duplicate_vars>>

\* The server process is restarted: a new EvoContext, the same cache files.
Restart ==
    /\ initialized
    /\ initialized' = FALSE
    /\ org_id' = NoInstance
    /\ hub_url' = HubOf(NoInstance)
    /\ client' = NoAddress
    /\ UNCHANGED <<cache_variables, token_cached, selected, addressed,
                   builder_vars, tool_vars, agent_vars, duplicate_vars>>

NextContext ==
    \/ select_instance
    \/ list_workspaces
    \/ TokenExpires
    \/ Restart

SpecContext == InitContext /\ [][NextContext]_vars

(* ====================== the agent and its server ====================== *)
\* The values MCP_TOOL_FILTER is given in the agent's environment or .env.
FilterValues == {"all", "admin", "data", "workspace", "Admin", "ALL", "Data", ""}

\* os.getenv(name, default) on a variable whose value is value.
getenv(value, default) == IF value = Unset THEN default ELSE value

\* str.lower() on the values above.
lower(value) ==
    CASE value = "Admin" -> "admin"
      [] value = "ALL" -> "all"
      [] value = "Data" -> "data"
      [] OTHER -> value

VALID_TOOL_FILTERS == {"admin", "data", "all"}

\* mcp_tools.py's TOOL_FILTER from the server's environment: MCP_TOOL_FILTER,
\* else MCP_AGENT_TYPE, else "all", lower-cased; an invalid one becomes "all".
tool_filter(mcp_tool_filter, mcp_agent_type) ==
    LET given == lower(getenv(mcp_tool_filter, getenv(mcp_agent_type, "all")))
    IN IF given \notin VALID_TOOL_FILTERS THEN "all" ELSE given

\* The prompts the server registers for a TOOL_FILTER.
registered_prompts(filter) ==
    (IF filter = "all" THEN {"all_prompt"} ELSE {})
    \cup (IF filter \in {"all", "admin"} THEN {"admin_prompt"} ELSE {})
    \cup (IF filter \in {"all", "data"} THEN {"data_prompt"} ELSE {})

\* The agent is started with MCP_TOOL_FILTER set to some value, or unset.
InitAgent ==
    /\ IdleBuilder
    /\ IdleTool
    /\ FreshContext
    /\ IdleDuplicate
    /\ environ \in FilterValues \cup {Unset}
    /\ agent_pc = "agent"
    /\ AGENT_TYPE = Unset
    /\ tool_env = Unset
    /\ prompt_name = ""
    /\ TOOL_FILTER = Unset
    /\ prompts = {}
    /\ instruction = ""

\* agent.py is imported: AGENT_TYPE, the server's environment, prompt_name.
agent_module ==
    /\ agent_pc = "agent"
    /\ LET type == getenv(environ, "workspace")
       IN /\ AGENT_TYPE' = type
          /\ tool_env' = type
          /\ prompt_name' = type \o "_prompt"
    /\ agent_pc' = "server"
    /\ UNCHANGED <<environ, TOOL_FILTER, prompts, instruction, builder_vars, tool_vars,
                   context_vars, duplicate_vars>>

\* The server the agent launches runs mcp_tools.py with tool_env as its
\* environment (MCP_AGENT_TYPE is not passed on).
mcp_tools_module ==
    /\ agent_pc = "server"
    /\ LET filter == tool_filter(tool_env, Unset)
       IN /\ TOOL_FILTER' = filter
          /\ prompts' = registered_prompts(filter)
    /\ agent_pc' = "serving"
    /\ UNCHANGED <<environ, AGENT_TYPE, tool_env, prompt_name, instruction, builder_vars,
                   tool_vars, context_vars, duplicate_vars>>

\* The instruction provider asks the server for the prompt prompt_name.
get_prompt ==
    /\ agent_pc = "serving"
    /\ instruction = ""
    /\ instruction' = IF prompt_name \in prompts THEN "found" ELSE "unknown_prompt"
    /\ UNCHANGED <<environ, agent_pc, AGENT_TYPE, tool_env, prompt_name, TOOL_FILTER,
                   prompts, builder_vars, tool_vars, context_vars, duplicate_vars>>

\* The agent calls the general tools of the server it launched.
call_tool ==
    /\ agent_pc = "serving"
    /\ NextContext

NextAgent ==
    \/ agent_module
    \/ mcp_tools_module
    \/ get_prompt
    \/ call_tool

SpecAgent == InitAgent /\ [][NextAgent]_vars

(* =================== workspace_duplicate_workspace ==================== *)
\* A source object: its schema's sub_classification, its name, the data
\* blobs its dict references, and the collaborator call that raises when the
\* object is copied ("" for none).  copy_object_data is not called for an
\* object without data, so cannot be what raises for it.
Failures == {"", "download_object_by_id", "copy_object_data", "create_geoscience_object"}

SourceObjects ==
    {o \in [sub_classification : {"pointset", "line-segments"}, name : {"a", "b"},
            data : {{}, {"blob"}}, fails : Failures] :
        /\ o.sub_classification = "line-segments" => o.name = "a"
        /\ o.fails = "copy_object_data" => o.data /= {}}

SchemaFilters == {<<>>, <<"pointset">>}
NameFilters == {<<>>, <<"a">>}

\* list_all_objects(): the objects, each with its id.
WithIds(objects) ==
    [i \in 1..Len(objects) |->
        [id |-> i, sub_classification |-> objects[i].sub_classification,
         name |-> objects[i].name, data |-> objects[i].data, fails |-> objects[i].fails]]

InitDuplicate ==
    /\ IdleBuilder
    /\ IdleTool
    /\ IdleContext
    /\ IdleAgent
    /\ dw_pc = "called"
    /\ \E objects \in SeqsUpTo(SourceObjects, MaxObjects) : all_objects = WithIds(objects)
    /\ schema_filter \in SchemaFilters
    /\ name_filter \in NameFilters
    /\ filtered_objects = <<>>
    /\ obj_index = 0
    /\ downloads = <<>>
    /\ copied_count = 0
    /\ failed_count = 0
    /\ cloned_data_ids = {}

\* (not schema_filter or sub_classification in schema_filter) and
\* (not name_filter or name in name_filter)
passes_filters(obj, schemas, names) ==
    /\ schemas = <<>> \/ obj.sub_classification \in Range(schemas)
    /\ names = <<>> \/ obj.name \in Range(names)

apply_filters(objects, schemas, names) ==
    LET passes(obj) == passes_filters(obj, schemas, names)
    IN SelectSeq(objects, passes)

\* Up to the loop: ensure_initialized, create_workspace, the two object
\* clients and list_all_objects, any of which may raise and end the tool;
\* then the filters.
duplicate_setup ==
    /\ dw_pc = "called"
    /\ \E outcome \in Outcomes :
         IF outcome = "raise"
         THEN /\ dw_pc' = "raised"
              /\ UNCHANGED <<filtered_objects, obj_index>>
         ELSE /\ dw_pc' = "loop"
              /\ filtered_objects' = apply_filters(all_objects, schema_filter, name_filter)
              /\ obj_index' = 1
    /\ UNCHANGED <<all_objects, schema_filter, name_filter, downloads, copied_count,
                   failed_count, cloned_data_ids, builder_vars, tool_vars, context_vars,
                   agent_vars>>

\* An except clause that counts nothing.
count_failure_forgotten(count) == count

\* except Exception: failed_count += 1
count_failure(count) == count + 1

\* One iteration of "for obj in filtered_objects": download, copy the data
\* blobs not yet cloned, create; an exception of any of them is counted and
\* the loop goes on.
duplicate_object ==
    /\ dw_pc = "loop"
    /\ obj_index <= Len(filtered_objects)
    /\ LET obj == filtered_objects[obj_index]
           new_data_identifiers == obj.data \ cloned_data_ids
           copy_called == obj.fails /= "download_object_by_id" /\ new_data_identifiers /= {}
           raised == \/ obj.fails \in {"download_object_by_id", "create_geoscience_object"}
                     \/ obj.fails = "copy_object_data" /\ copy_called
       IN /\ downloads' = Append(downloads, obj.id)
          /\ cloned_data_ids' =
                IF copy_called /\ obj.fails /= "copy_object_data"
                THEN cloned_data_ids \cup new_data_identifiers ELSE cloned_data_ids
          /\ copied_count' = IF raised THEN copied_count ELSE copied_count + 1
          /\ failed_count' = IF raised THEN count_failure(failed_count) ELSE failed_count
    /\ obj_index' = obj_index + 1
    /\ UNCHANGED <<dw_pc, all_objects, schema_filter, name_filter, filtered_objects,
                   builder_vars, tool_vars, context_vars, agent_vars>>

\* The loop is over: the counts are returned.
duplicate_return ==
    /\ dw_pc = "loop"
    /\ obj_index > Len(filtered_objects)
    /\ dw_pc' = "returned"
    /\ UNCHANGED <<all_objects, schema_filter, name_filter, filtered_objects, obj_index,
                   downloads, copied_count, failed_count, cloned_data_ids, builder_vars,
                   tool_vars, context_vars, agent_vars>>

NextDuplicate ==
    \/ duplicate_setup
    \/ duplicate_object
    \/ duplicate_return

SpecDuplicate == InitDuplicate /\ [][NextDuplicate]_vars

(* ===================== the grouping index: C1 - C3 ==================== *)
CollectionBuilt == b_op = "collection" /\ b_pc = "built"

LookupKeys == {hole_id_lookup[k].key : k \in DOMAIN hole_id_lookup}

CountsSum == SumSeq([i \in DOMAIN holes_df |-> holes_df[i].count])

EntriesOf(k) == {i \in DOMAIN holes_df : holes_df[i].hole_index = k}

OnePerLookupKey ==
    /\ Len(holes_df) = Len(hole_id_lookup)
    /\ \A k \in LookupKeys : Cardinality(EntriesOf(k)) = 1

\* The child rows whose hole id the lookup knows.
KnownChildRows == {i \in DOMAIN sorted_child : in_id_to_key(hole_id_lookup, sorted_child[i].id)}

\* C1 as stated: the grouping index has exactly P entries, one per lookup
\* key, and the counts sum to the child table's row count, for every sorted
\* child table and every lookup.
C1_Original ==
    CollectionBuilt => OnePerLookupKey /\ CountsSum = Len(sorted_child)

\* C1, amended: the grouping index has exactly P entries, one per lookup
\* key, and the counts sum to the number of child rows whose hole id is in
\* the lookup (the whole table when every child id is a collar id).
C1_GroupingCompleteness ==
    CollectionBuilt => OnePerLookupKey /\ CountsSum = Cardinality(KnownChildRows)

C1_Witness ==
    /\ CollectionBuilt
    /\ Len(hole_id_lookup) = 2
    /\ Len(sorted_child) = 3
    /\ Cardinality(KnownChildRows) = 2
    /\ \E i \in DOMAIN holes_df : holes_df[i].count = 0

\* The scenario of C2: collars H1, H2; a survey of three rows, all of H1.
C2_Scenario ==
    /\ CollectionBuilt
    /\ child_kind = "survey"
    /\ column_of_id(sorted_collar) = <<1, 2>>
    /\ column_of_id(sorted_child) = <<1, 1, 1>>

\* C2 as stated: the hole without rows is placed after the observed runs,
\* its offset the end of the table: [(H1,0,3),(H2,3,0)].
C2_Original ==
    C2_Scenario => holes_df = <<HoleRecord(1, 0, 3), HoleRecord(2, 3, 0)>>

\* C2, amended: a hole of the lookup without child rows appears exactly once
\* in the grouping index, with count 0 and offset 0; the index is ascending
\* in offset, so such a hole stands among the entries of offset 0, and in
\* the scenario the index holds exactly (H1,0,3) and (H2,0,0).
C2_ZeroCountHole ==
    CollectionBuilt =>
        /\ \A k \in DOMAIN hole_id_lookup :
              (\A i \in DOMAIN sorted_child : sorted_child[i].id /= hole_id_lookup[k].value)
              => /\ Cardinality(EntriesOf(hole_id_lookup[k].key)) = 1
                 /\ \A i \in EntriesOf(hole_id_lookup[k].key) :
                       holes_df[i].count = 0 /\ holes_df[i].offset = 0
        /\ \A i, j \in DOMAIN holes_df : i < j => holes_df[i].offset <= holes_df[j].offset
        /\ C2_Scenario =>
              /\ Len(holes_df) = 2
              /\ Range(holes_df) = {HoleRecord(1, 0, 3), HoleRecord(2, 0, 0)}

C2_Witness == C2_Scenario /\ holes_df = <<HoleRecord(1, 0, 3), HoleRecord(2, 0, 0)>>

\* How many rows of the persisted run of entry e carry the value v, and how
\* many rows of the caller's child table belong to hole h with the value v.
PersistedInRun(e, v) ==
    Cardinality({i \in (e.offset + 1)..(e.offset + e.count) : saved_child[i].d = v})

GivenForHole(h, v) ==
    Cardinality({i \in DOMAIN child_df : child_df[i].id = h /\ child_df[i].d = v})

ValueOfKey(k) == hole_id_lookup[CHOOSE j \in DOMAIN hole_id_lookup : hole_id_lookup[j].key = k].value

\* C3: the persisted child array is in the order the grouping index
\* describes: for every entry (k, offset, count) with count > 0 the persisted
\* rows offset .. offset+count-1 are exactly the child rows of the hole with
\* code k, and the runs of distinct entries do not overlap.
C3_IndexMatchesPersistedOrder ==
    CollectionBuilt =>
        /\ Len(saved_child) = Len(child_df)
        /\ \A i \in DOMAIN holes_df :
              holes_df[i].count > 0 =>
                 /\ holes_df[i].offset + holes_df[i].count <= Len(saved_child)
                 /\ \A p \in (holes_df[i].offset + 1)..(holes_df[i].offset + holes_df[i].count) :
                       sorted_child[p].id = ValueOfKey(holes_df[i].hole_index)
                 /\ \A v \in Depths :
                       PersistedInRun(holes_df[i], v)
                         = GivenForHole(ValueOfKey(holes_df[i].hole_index), v)
        /\ \A i, j \in DOMAIN holes_df :
              (i /= j /\ holes_df[i].count > 0 /\ holes_df[j].count > 0) =>
                 \/ holes_df[i].offset + holes_df[i].count <= holes_df[j].offset
                 \/ holes_df[j].offset + holes_df[j].count <= holes_df[i].offset

C3_Witness ==
    /\ CollectionBuilt
    /\ \E i, j \in DOMAIN child_df : i < j /\ child_df[i].id > child_df[j].id
    /\ Cardinality({i \in DOMAIN holes_df : holes_df[i].count > 0}) = 2
    /\ Len(saved_child) = 3

(* ================= categorical attributes: C4, C5 ===================== *)
CategoryBuilt ==
    b_op \in {"attribute", "intervals_hole_id"} /\ b_pc = "built" /\ a_attr.type = "category"

\* Keys 1..K without gap or duplicate, and the codes used are exactly 1..K.
DenseLookup(table, values) ==
    /\ {table[k].key : k \in DOMAIN table} = 1..Len(table)
    /\ \A j, k \in DOMAIN table : j /= k => table[j].key /= table[k].key
    /\ Range(values) = 1..Len(table)

\* C4: category density: in every categorical attribute and every hole-id
\* category field a builder produces, the lookup keys are exactly 1..K and
\* the codes of the value array are exactly {1..K}.
C4_CategoryDensity ==
    /\ CategoryBuilt => DenseLookup(a_attr.table, a_attr.values)
    /\ CollectionBuilt => DenseLookup(hole_id_lookup, collar_keys)

C4_Witness ==
    /\ CategoryBuilt
    /\ b_op = "attribute"
    /\ Len(a_attr.table) = 2
    /\ Len(a_attr.values) = 4

ValueOfCode(table, c) == table[CHOOSE k \in DOMAIN table : table[k].key = c].value

FirstUse(values, c) == CHOOSE i \in DOMAIN values :
                           values[i] = c /\ \A j \in DOMAIN values : values[j] = c => i <= j

\* C5 as stated: in every column build_attribute makes categorical (string
\* kinds and the unrecognised-kind fallback alike) a missing cell is the
\* category "", every other cell its own value, the lookup is in
\* first-occurrence order, and ["A", None, "A", "B"] gives
\* {1:"A", 2:"", 3:"B"} with codes [1,2,1,3].
C5_MissingIsEmptyCategory ==
    (CategoryBuilt /\ b_op = "attribute") =>
        /\ Len(a_attr.values) = Len(a_data)
        /\ \A i \in DOMAIN a_data :
              ValueOfCode(a_attr.table, a_attr.values[i])
                = IF a_data[i] = Missing THEN "" ELSE a_data[i]
        /\ \A j, k \in 1..Len(a_attr.table) :
              j < k => FirstUse(a_attr.values, j) < FirstUse(a_attr.values, k)
        /\ a_data = <<"A", Missing, "A", "B">> =>
              /\ a_attr.table = <<[key |-> 1, value |-> "A"], [key |-> 2, value |-> ""],
                                  [key |-> 3, value |-> "B"]>>
              /\ a_attr.values = <<1, 2, 1, 3>>

(* ======================== bounding box: C6 ============================ *)
BBoxReturned == b_op = "bounding_box" /\ b_pc = "built"
BBoxRaised == b_op = "bounding_box" /\ b_pc = "raised"

\* The rows in which all three coordinates are present.
PresentRows == {i \in DOMAIN bb_df : \A a \in 1..3 : bb_df[i][a] /= NaN}

IsMinOver(m, a) == (\E i \in PresentRows : bb_df[i][a] = m) /\ \A i \in PresentRows : m <= bb_df[i][a]
IsMaxOver(m, a) == (\E i \in PresentRows : bb_df[i][a] = m) /\ \A i \in PresentRows : bb_df[i][a] <= m

\* C6: build_bounding_box returns six finite values, the per-axis min and
\* max over exactly the rows with all three coordinates present (min <= max
\* on every axis), or fails; it fails exactly when no row has all three
\* coordinates or an extremum is not finite.
C6_BoundingBox ==
    /\ BBoxReturned =>
          /\ bb_out.raised = ""
          /\ \A k \in BBoxKeys : isfinite(bb_out.box[k])
          /\ IsMinOver(bb_out.box.min_x, 1) /\ IsMaxOver(bb_out.box.max_x, 1)
          /\ IsMinOver(bb_out.box.min_y, 2) /\ IsMaxOver(bb_out.box.max_y, 2)
          /\ IsMinOver(bb_out.box.min_z, 3) /\ IsMaxOver(bb_out.box.max_z, 3)
          /\ bb_out.box.min_x <= bb_out.box.max_x
          /\ bb_out.box.min_y <= bb_out.box.max_y
          /\ bb_out.box.min_z <= bb_out.box.max_z
    /\ (b_op = "bounding_box" /\ b_pc /= "input") =>
          (BBoxRaised <=>
              \/ PresentRows = {}
              \/ \E i \in PresentRows, a \in 1..3 : ~isfinite(bb_df[i][a]))

C6_Witness ==
    /\ BBoxReturned
    /\ Len(bb_df) = 2
    /\ Cardinality(PresentRows) = 1

(* ===================== the line network indices: C7, C8 ================ *)
LineSegmentsCall == inp.tool = "line_segments"

\* Both files were read and the segments file has numeric index columns.
IndicesRead ==
    LineSegmentsCall /\ inp.vertices_file /= "not_found" /\ inp.segments_file = "ok"

VertexCount == Len(inp.vertices_df)

InputIndices == {inp.segments_df[r][c] : r \in DOMAIN inp.segments_df, c \in 1..2}

IndexTooLarge == IndicesRead /\ \E v \in InputIndices : notna(v) /\ v >= VertexCount

IndexNegativeOrMissing == IndicesRead /\ \E v \in InputIndices : ~notna(v) \/ v < 0

NothingStored == calls = <<>> /\ saved = <<>> /\ created = <<>>

RejectedByValidation ==
    pc = "start" \/ (pc = "returned" /\ status = "validation_failed")

SavedIndexTables == {k \in DOMAIN saved : saved[k].table = "indices"}

C8_IndicesWithinRange ==
    LineSegmentsCall =>
      /\ \A o \in DOMAIN created : \A k \in DOMAIN created[o].tables :
           created[o].tables[k].table = "indices" =>
             \A r \in DOMAIN created[o].tables[k].rows : \A c \in 1..2 :
                 uint64_below(created[o].tables[k].rows[r][c], VertexCount)
      /\ IndexNegativeOrMissing => saved = <<>> /\ RejectedByValidation

(* ============================ the dry run: C9 ========================== *)
DryRunStatuses == {"error", "validation_failed", "validation_passed"}

\* C9: with dry_run = True the tool calls no collaborator, saves nothing,
\* creates nothing, and ends by returning one of error, validation_failed
\* or validation_passed.
C9_DryRunNoWrites ==
    inp.dry_run =>
      /\ NothingStored
      /\ pc \in {"start", "returned"}
      /\ pc = "returned" => status \in DryRunStatuses

(* ====================== the round-trip parse: C10 ====================== *)
CallsOf(fn) == {k \in DOMAIN calls : calls[k].fn = fn}

Succeeded(k) == calls[k].outcome = "ok"

BoundingBoxErrors == {"not_finite", "no_valid_coordinates"}

\* The invocation ended on a structural validation failure: the tool's own
\* validation refused the input, or the build raised on its bounding box.
AbortedOnValidation ==
    /\ pc = "returned"
    /\ \/ status = "validation_failed"
       \/ status = "creation_failed" /\ error \in BoundingBoxErrors

\* C11: an invocation that ended on a structural validation failure has
\* handed no table to save_table and has called neither
\* upload_referenced_data nor create_geoscience_object.
C11_AbortPersistsNothing ==
    AbortedOnValidation =>
      /\ saved = <<>>
      /\ CallsOf("save_table") = {}
      /\ CallsOf("upload_referenced_data") = {}
      /\ CallsOf("create_geoscience_object") = {}

FailedCalls == {k \in DOMAIN calls : ~Succeeded(k)}

\* C12: a returned failure names its phase: a bounding box the build
\* refuses is reported as validation_failed, a from_dict that raised as
\* schema_validation_failed, and creation_failed is returned only when a
\* remote collaborator (get_object_client, upload, create) failed.
C12_StatusNamesPhase ==
    pc = "returned" =>
      /\ error \in BoundingBoxErrors => status = "validation_failed"
      /\ (\E k \in CallsOf("from_dict") : ~Succeeded(k)) =>
            status = "schema_validation_failed"
      /\ status = "creation_failed" =>
            \E k \in FailedCalls :
                calls[k].fn \in {"get_object_client", "upload_referenced_data",
                                 "create_geoscience_object"}

(* ====================== missing columns: C13 =========================== *)
Reported(message) == message \in Range(errors)

\* C13: when a build's files are all found, every required column set that
\* lacks a column is named in the errors of the one validation_failed
\* result: for line segments the vertex and the segment columns; for a hole
\* collection the collar columns, the max-depth column, the survey columns
\* and each interval file's columns.
C13_AllMissingColumnsTogether ==
    /\ (inp.tool = "line_segments" /\ pc = "returned" /\ status /= "error") =>
         /\ inp.vertices_file = "missing_columns" => Reported("Missing vertex columns")
         /\ inp.segments_file = "missing_columns" => Reported("Missing segment columns")
    /\ (inp.tool = "downhole_collection" /\ pc = "returned" /\ status /= "error") =>
         /\ inp.collar_file = "missing_columns" => Reported("Missing collar columns")
         /\ inp.max_depth_column = "absent" => Reported("Max depth column not found")
         /\ inp.survey_file = "missing_columns" => Reported("Missing survey columns")
         /\ \A k \in DOMAIN inp.interval_files :
              inp.interval_files[k] = "missing_columns" =>
                 Reported("Interval missing columns")

(* ================ referenced attribute columns: C14 ==================== *)
\* The pointset call lists an attribute column its CSV does not have.
AttributeColumnAbsent ==
    /\ inp.tool = "pointset"
    /\ inp.csv_file = "ok"
    /\ \E k \in DOMAIN inp.attribute_columns : inp.attribute_columns[k] \notin CsvColumns

\* C14: a build whose attribute column list names a column absent from the
\* table is refused by validation, before any collaborator call or save.
C14_ReferencedColumnsExist ==
    AttributeColumnAbsent => NothingStored /\ RejectedByValidation

(* ======================= input not found: C15 ========================== *)
\* One of the files the call names does not exist.
AnyFileNotFound ==
    CASE inp.tool \in {"pointset", "downhole_intervals"} -> inp.csv_file = "not_found"
      [] inp.tool = "line_segments" ->
            inp.vertices_file = "not_found" \/ inp.segments_file = "not_found"
      [] inp.tool = "downhole_collection" ->
            \/ inp.collar_file = "not_found"
            \/ inp.survey_file = "not_found"
            \/ \E k \in DOMAIN inp.interval_files : inp.interval_files[k] = "not_found"
      [] OTHER -> FALSE

\* C15: when a file the call names does not exist, the tool has returned
\* the status error at once: no validation error of any input has been
\* collected and nothing has been called or saved.
C15_InputNotFoundImmediate ==
    (AnyFileNotFound /\ pc /= "start") =>
      /\ pc = "returned"
      /\ status = "error"
      /\ errors = <<>>
      /\ NothingStored

(* =================== per-attribute failure: C16 ======================== *)
AttributesBuilt == b_op = "attributes" /\ b_pc = "built"

\* A requested column that is in the table and not excluded.
IsEligible(col) == col \in at_in.df_columns /\ col \notin at_in.exclude

ConversionRaises(col) == at_in.raises[col] /= ""

ConversionSucceeds(col) == at_in.raises[col] = ""

IsFailureWarning(w) == "failed" \in DOMAIN w

Eligible == SelectSeq(at_in.columns, IsEligible)

FailureWarnings == SelectSeq(at_out.warnings, IsFailureWarning)

\* C16: after build_attributes the attributes are the eligible requested
\* columns whose conversion did not raise, in the requested order; the
\* failure warnings are one per eligible column whose conversion raised, in
\* order, each with the column name and the exception text; the two counts
\* add up to the number of eligible requested columns; and the call
\* returned rather than raised.
C16_PartialFailure ==
    /\ b_op = "attributes" => b_pc \in {"input", "built"}
    /\ AttributesBuilt =>
         LET converted == SelectSeq(Eligible, ConversionSucceeds)
             failing == SelectSeq(Eligible, ConversionRaises)
         IN /\ [k \in DOMAIN at_out.attributes |-> at_out.attributes[k].name] = converted
            /\ FailureWarnings =
                 [k \in DOMAIN failing |->
                     FailureWarning(failing[k], at_in.raises[failing[k]])]
            /\ Len(at_out.attributes) + Len(FailureWarnings) = Len(Eligible)

\* A column whose conversion raised, requested before one that was built.
C16_Witness ==
    /\ AttributesBuilt
    /\ \E i, j \in DOMAIN at_in.columns :
         /\ i < j
         /\ IsEligible(at_in.columns[i]) /\ ConversionRaises(at_in.columns[i])
         /\ IsEligible(at_in.columns[j]) /\ ConversionSucceeds(at_in.columns[j])
    /\ Len(at_out.attributes) = 1
    /\ Len(FailureWarnings) = 1

(* ======================= remote failures: C17 ========================== *)
RemoteCalls == CallsOf("upload_referenced_data") \cup CallsOf("create_geoscience_object")

\* C17: upload_referenced_data and create_geoscience_object are each called
\* at most once; after an upload that raised, create is never called; and
\* once either has raised the tool has returned creation_failed with the
\* text of that exception as its error.
C17_NoRetry ==
    /\ Cardinality(CallsOf("upload_referenced_data")) <= 1
    /\ Cardinality(CallsOf("create_geoscience_object")) <= 1
    /\ (\E u \in CallsOf("upload_referenced_data") : ~Succeeded(u)) =>
          CallsOf("create_geoscience_object") = {}
    /\ \A k \in RemoteCalls : ~Succeeded(k) =>
          /\ pc = "returned"
          /\ status = "creation_failed"
          /\ error = calls[k].text

\* The upload raised and the tool returned its text.
C17_Witness ==
    /\ pc = "returned"
    /\ status = "creation_failed"
    /\ \E u \in CallsOf("upload_referenced_data") :
          ~Succeeded(u) /\ calls[u].text \in ErrorTexts /\ error = calls[u].text
    /\ CallsOf("create_geoscience_object") = {}

(* ===================== validate, then commit: C18 ====================== *)
\* What the call with dry_run = True returns on the same files.
DryRunPasses == validate(inp) = Passed

\* C18: a call with dry_run = False on an input whose dry run returns
\* validation_passed does not end in validation_failed, and ends in
\* creation_failed only with the error of a collaborator that raised.  (A
\* from_dict that raises is left aside: the schema classes are outside the
\* model.)
C18_ValidateThenCommit ==
    (~inp.dry_run /\ DryRunPasses /\ pc = "returned") =>
      /\ status /= "validation_failed"
      /\ status = "creation_failed" =>
            \E k \in FailedCalls : error = calls[k].text

(* ======================= select_instance: C19 ========================== *)
\* C19: once select_instance has returned an instance, what a later tool
\* invocation addresses through workspace_client / connector is that
\* instance's organisation id and hub URL.
C19_SelectedInstanceAddressed ==
    (selected /= NoInstance /\ addressed /= NoAddress) =>
        addressed = Address(selected, HubOf(selected))

(* ========================= agent prompt: C20 =========================== *)
\* C20: whatever MCP_TOOL_FILTER the agent is started with, unset included,
\* the server it launches has registered a prompt under the name the agent
\* requests.
C20_RequestedPromptRegistered ==
    agent_pc = "serving" => prompt_name \in prompts

(* ========== distances, dip inversion, sort stability: C21 - C23 ======== *)
SurveyBuilt == CollectionBuilt /\ child_kind = "survey"

\* The depths the caller's survey table holds for hole h.
ObservedDepths(h) == {child_df[i].d : i \in {j \in DOMAIN child_df : child_df[j].id = h}}

IsMaxDepthObserved(h, v) ==
    IF ObservedDepths(h) = {} THEN v = 0
    ELSE v \in ObservedDepths(h) /\ \A d \in ObservedDepths(h) : d <= v

\* C21: without a maximum-depth column the distances array has one row per
\* collar row, in sorted collar order, whose three fields all hold the
\* largest depth among the hole's survey rows, 0 for a hole without any.
C21_DerivedDistances ==
    (SurveyBuilt /\ max_depth_col = NoColumn) =>
        /\ Len(distances) = Len(collar_df)
        /\ Len(sorted_collar) = Len(collar_df)
        /\ \A i, j \in DOMAIN sorted_collar :
              i < j => sorted_collar[i].id <= sorted_collar[j].id
        /\ \A i \in DOMAIN distances :
              /\ IsMaxDepthObserved(sorted_collar[i].id, distances[i].final)
              /\ distances[i].target = distances[i].final
              /\ distances[i].current = distances[i].final

C21_Witness ==
    /\ SurveyBuilt
    /\ max_depth_col = NoColumn
    /\ Len(distances) = 2
    /\ distances[1].final = 20
    /\ distances[2].final = 0
    /\ \E i, j \in DOMAIN child_df :
          i < j /\ child_df[i].id = child_df[j].id /\ child_df[i].d < child_df[j].d

IsReordering(a, b) == Len(a) = Len(b) /\ \E p \in Perms(Len(a)) : Reorder(a, p) = b

PathOf(df, inverted) ==
    [i \in 1..Len(df) |->
        [distance |-> df[i].d, azimuth |-> df[i].azimuth,
         dip |-> IF inverted THEN 0 - df[i].dip ELSE df[i].dip]]

\* C22: with invert_z the persisted path holds the negated dip of every
\* survey row, distance and azimuth as given; without it the dip as given;
\* the caller's survey table is not modified; and inverting twice gives the
\* original dips back.
C22_DipInversion ==
    /\ [](SurveyBuilt =>
            /\ IsReordering(child_df, sorted_child)
            /\ path = PathOf(sorted_child, invert_z)
            /\ invert_dip(invert_dip(sorted_child)) = sorted_child)
    /\ [][child_df' = child_df]_vars

C22_Witness ==
    /\ SurveyBuilt
    /\ invert_z
    /\ Len(path) = 2
    /\ path[1].dip = 60
    /\ path[2].dip = -45
    /\ \A i \in DOMAIN child_df : child_df[i].dip < 0 <=> i = 1

\* The rows of df in ascending id, rows of one id in their order in df.
IsStableSort(df, sorted) ==
    /\ Len(sorted) = Len(df)
    /\ \E p \in Perms(Len(df)) :
          /\ sorted = Reorder(df, p)
          /\ \A i, j \in 1..Len(df) :
                i < j => \/ df[p[i]].id < df[p[j]].id
                         \/ df[p[i]].id = df[p[j]].id /\ p[i] < p[j]

\* C23: the collar and the survey table are each sorted by their hole id
\* with a stable sort: rows of one hole keep their input order in what is
\* persisted.
C23_StableSort ==
    SurveyBuilt =>
        /\ IsStableSort(collar_df, sorted_collar)
        /\ IsStableSort(child_df, sorted_child)

(* ================ attribute typing and keys: C24 - C27 ================= *)
AttributeBuilt == b_op = "attribute" /\ b_pc = "built"

NumericKinds == {"float64", "int64", "uint64"}
StringKinds == {"object", "string"}

\* C24: build_attribute decides by the declared kind alone: every numeric
\* kind of the table model (float64, int64, uint64) gives a continuous
\* attribute, every string / object kind a categorical one.
C24_KindDecidesType ==
    AttributeBuilt =>
        /\ a_dtype \in NumericKinds => a_attr.type = "continuous"
        /\ a_dtype \in StringKinds => a_attr.type = "category"

\* The kinds build_attribute names in its two branches.
RecognisedKinds == {"object", "string", "str", "float64", "float32", "int64", "int32", "float", "int"}

\* C25: a column of an unrecognised kind gives a categorical attribute and
\* exactly one warning, which names the kind and the column; a column of a
\* recognised kind gives no warning; build_attribute returns in every case.
C25_UnknownKindWarns ==
    /\ b_op = "attribute" => b_pc \in {"input", "built"}
    /\ AttributeBuilt =>
         IF a_dtype \in RecognisedKinds
         THEN a_warnings = <<>>
         ELSE /\ a_attr.type = "category"
              /\ Len(a_warnings) = 1
              /\ a_warnings[1].unknown_dtype = a_dtype
              /\ a_warnings[1].column = a_name

C25_Witness ==
    /\ AttributeBuilt
    /\ a_dtype = "category"
    /\ a_name = "lith"
    /\ Len(a_data) = 2
    /\ a_attr.type = "category"
    /\ Len(a_warnings) = 1

\* The key a name has by the rule: each character lowercased, a space or a
\* dash replaced by an underscore.
IsKeyOf(key, chars) ==
    /\ Len(key) = Len(chars)
    /\ \A i \in DOMAIN chars :
          key[i] = IF chars[i] \in {" ", "-"} THEN "_" ELSE lower_char(chars[i])

\* C26: the key of an attribute is determined by its display name alone
\* (lowercase, spaces and dashes to underscores), whatever the column's kind
\* and cells; the categorical and the continuous builder derive the same
\* key; and the key of a key is that key.
C26_KeyDerivation ==
    AttributeBuilt =>
        /\ IsKeyOf(a_attr.key, Chars(a_name))
        /\ category_key(Chars(a_name)) = continuous_key(Chars(a_name))
        /\ category_key(a_attr.key) = a_attr.key
        /\ continuous_key(a_attr.key) = a_attr.key

C26_Witness ==
    /\ AttributeBuilt
    /\ a_name = "au-ppm"
    /\ a_attr.type = "category"
    /\ a_attr.key = <<"a", "u", "_", "p", "p", "m">>
    /\ Len(a_data) = 1

Converted(col) ==
    \E i \in DOMAIN at_in.columns :
        at_in.columns[i] = col /\ IsEligible(col) /\ ConversionSucceeds(col)

PositionsOf(col) == {k \in DOMAIN at_out.attributes : at_out.attributes[k].name = col}

Mentions(w, col) ==
    \/ IsFailureWarning(w) /\ w.failed = col
    \/ "column" \in DOMAIN w /\ w.column = col

PointsetBuilt == b_op = "pointset" /\ b_pc = "built"

AttributeNamesBuilt == [k \in DOMAIN ps_out.attributes |-> ps_out.attributes[k].name]

\* attribute_columns was not specified: None handed to the builder, or None
\* or an empty list handed to the tool.
Unspecified ==
    \/ ~ps_in.attribute_columns.given
    \/ ps_in.via_tool /\ ps_in.attribute_columns.list = <<>>

PositionIn(seq, v) == CHOOSE i \in DOMAIN seq : seq[i] = v

ValueAt(attribute, i) ==
    IF attribute.type = "category"
    THEN ValueOfCode(attribute.table, attribute.values[i])
    ELSE attribute.values[i]

HasMissingCoordinate(row) == \E a \in 1..3 : ~notna(row.x[a])

\* C29: a built point set has one coordinate row and one value of every
\* attribute per row of the input table, in input order, the rows with a
\* missing coordinate included; such rows are left out of the bounding box
\* only.
C29_RowCountPreserved ==
    PointsetBuilt =>
        /\ Len(ps_out.coordinates) = Len(ps_in.rows)
        /\ \A i \in DOMAIN ps_in.rows : ps_out.coordinates[i] = ps_in.rows[i].x
        /\ \A k \in DOMAIN ps_out.attributes :
              /\ Len(ps_out.attributes[k].values) = Len(ps_in.rows)
              /\ \A i \in DOMAIN ps_in.rows :
                    ValueAt(ps_out.attributes[k], i) = ps_in.rows[i][ps_out.attributes[k].name]
        /\ \A i \in DOMAIN ps_in.rows :
              ~HasMissingCoordinate(ps_in.rows[i]) =>
                 \A a \in 1..3 :
                    /\ ps_out.box[<<"min_x", "min_y", "min_z">>[a]] <= ps_in.rows[i].x[a]
                    /\ ps_in.rows[i].x[a] <= ps_out.box[<<"max_x", "max_y", "max_z">>[a]]
        /\ \A k \in BBoxKeys : isfinite(ps_out.box[k])

C29_Witness ==
    /\ PointsetBuilt
    /\ Len(ps_in.rows) = 2
    /\ HasMissingCoordinate(ps_in.rows[1])
    /\ ~HasMissingCoordinate(ps_in.rows[2])
    /\ Len(ps_out.coordinates) = 2
    /\ Len(ps_out.attributes) = 2
    /\ Len(ps_out.attributes[1].values) = 2
    /\ ps_out.box.min_x = ps_out.box.max_x

(* =================== workspace duplication: C30 ======================== *)
\* An object of the source passes: an empty filter list filters nothing.
PassesFilters(o) ==
    /\ schema_filter /= <<>> => \E k \in DOMAIN schema_filter : schema_filter[k] = o.sub_classification
    /\ name_filter /= <<>> => \E k \in DOMAIN name_filter : name_filter[k] = o.name

\* The ids of the source objects that pass, in listing order.
FilteredIds ==
    LET passing == SelectSeq(all_objects, PassesFilters)
    IN [k \in DOMAIN passing |-> passing[k].id]

\* C30: every source object that passes the filters is attempted exactly
\* once, in listing order, whatever failed for the objects before it; and
\* when the tool returns, all of them have been attempted and
\* objects_copied + objects_failed is their number.
C30_EveryObjectAttemptedOnce ==
    /\ dw_pc \in {"loop", "returned"} =>
         /\ Len(downloads) <= Len(FilteredIds)
         /\ downloads = SubSeq(FilteredIds, 1, Len(downloads))
         /\ copied_count + failed_count = Len(downloads)
    /\ dw_pc = "returned" =>
         /\ downloads = FilteredIds
         /\ copied_count + failed_count = Len(FilteredIds)

\* Two objects pass; the first fails, the second is copied all the same.
C30_Witness ==
    /\ dw_pc = "returned"
    /\ Len(all_objects) = 2
    /\ all_objects[1].fails = "download_object_by_id"
    /\ downloads = <<1, 2>>
    /\ copied_count = 1
    /\ failed_count = 1

====
